---- MODULE Spec2Model ----
(***************************************************************************)
(* Genetic algorithm of gen_alg_LUstations.py (GeneticAlgorithm and the    *)
(* functions it calls) together with the Route class of station_route.py.  *)
(*                                                                         *)
(* Python lists are TLA+ sequences; every index that appears in a          *)
(* definition's parameters or in a variable is the Python (0-based) index, *)
(* and At/Slice/InsertAt/DelAt/IndexOf translate.  A Station object is its *)
(* number 1..n.  A Route object is a record of the two attributes that     *)
(* Route.__init__ sets, path and time_taken, of its identity id, and of    *)
(* path_id, the identity of the list object its path attribute is bound    *)
(* to; identities are numbers, and a new object is given the least number  *)
(* that no object in use has.  A value of random.random() is held as a     *)
(* numerator k in 0..GridSize: it is k/GridSize for k below GridSize, and  *)
(* the greatest value random() returns, 1 - 2^-53, for k = GridSize;       *)
(* mutation_rate is held as a numerator over GridSize too.  Fitness,       *)
(* Cum_Sum and CDF are float64 numbers, computed with the roundings the    *)
(* code makes.                                                             *)
(***************************************************************************)
EXTENDS Integers, Sequences, FiniteSets, TLC

\* Bounds of the model.
\* A run has at least 3 stations and 1 route per generation, at most
\* MaxSize stations and routes per generation together, and at most
\* MaxSize + 1 stations, routes per generation and generations after the
\* initial one together.
MaxSize == 5
\* A run has at most MaxGen generations after the initial one.
MaxGen == 1
\* random.random() returns a multiple of 1/GridSize, or the greatest of its
\* values, 1 - 2^-53.
GridSize == 4
\* The station lists on which a single crossover is examined have at most
\* MaxPath stations (and the example of Procreate's docstring has 6), and
\* those on which a single Route is constructed one station less.
MaxPath == 4
\* Where a single Route is constructed, at most MaxMissing ordered pairs of
\* different stations have no entry in time_to.
MaxMissing == 2

VARIABLES
    station_list,     \* the caller's list of Station objects
    first_station,    \* the starting Station
    time_to,          \* time_to[s][t]: Station s's time_to mapping
    n_generations, pop_size, elite_size, mutation_rate,   \* run parameters
    pc,               \* position in GeneticAlgorithm and its callees
    population,       \* GeneticAlgorithm's population
    best_route_gen,   \* GeneticAlgorithm's best_route_gen
    mean_sigma_gen,   \* GeneticAlgorithm's mean_sigma_gen
    gen,              \* number of completed iterations of the generation loop
    parents,          \* CreateNextGeneration's parents dataframe (list of rows)
    mother, father,   \* SelectParents' lists, as row numbers of parents
    children,         \* Procreate's / Mutate's children list
    mating,           \* loop variable of SelectParents' and Procreate's loops
    pick_mother, pick_father,   \* SelectParents' draws for the current pair
    genes,            \* the two indices drawn by Procreate or Mutate
    child,            \* loop variable of Mutate's loop
    mutate_roll,      \* Mutate's draw for the current child
    mutate_hits,      \* history: the outcomes of the test of line 249 in the
                      \* latest call of Mutate, one per iteration of its loop
    mutate_path,      \* Mutate's copy of the path being mutated
    mutate_path_id,   \* the identity of that copy, a list object
    final_gen_df,     \* GeneticAlgorithm's final dataframe
    init_path,        \* Route.__init__'s argument path
    init_i,           \* Route.__init__'s loop variable i
    duration,         \* Route.__init__'s duration
    new_route,        \* what a caller's route = Route(path) binds
    heap,             \* the list objects in use where CreateRoute is followed
                      \* line by line: identity -> contents
    create_path,      \* CreateRoute's path: the identity of the list bound
    random_seed,      \* GeneticAlgorithmMenu's random_seed
    second_value,     \* GeneticAlgorithmMenu's second_value
    attempt,          \* ContactTfLAPI's attempt
    tfl_api_data,     \* ContactTfLAPI's tfl_api_data, and what it returns
    responses,        \* history: what each requests.get of the call gave
    time, date,       \* TimeAndDateMenu's time and date
    station_matrix_file,    \* RunGenAlg's argument
    station_list_file,      \* CreateStationListMenu's station_list_file
    journey_time_matrix     \* CreateStationMatrix's journey_time_matrix

vars == <<station_list, first_station, time_to, n_generations, pop_size,
          elite_size, mutation_rate, pc, population, best_route_gen,
          mean_sigma_gen, gen, parents, mother, father, children, mating,
          pick_mother, pick_father, genes, child, mutate_roll, mutate_hits,
          mutate_path, mutate_path_id, final_gen_df, init_path, init_i,
          duration, new_route, heap, create_path, random_seed, second_value,
          attempt, tfl_api_data, responses, time, date, station_matrix_file,
          station_list_file, journey_time_matrix>>

params == <<station_list, first_station, time_to, n_generations, pop_size,
            elite_size, mutation_rate>>

\* The variables of a call of Route(path) on its own.
construction == <<init_path, init_i, duration, new_route>>

\* The variables of GeneticAlgorithm, but for the Stations' time_to.
run == <<station_list, first_station, n_generations, pop_size, elite_size,
         mutation_rate, population, best_route_gen, mean_sigma_gen, gen,
         parents, mother, father, children, mating, pick_mother, pick_father,
         genes, child, mutate_roll, mutate_hits, mutate_path, mutate_path_id,
         final_gen_df>>

\* GeneticAlgorithm's variables below population, and its callees'.
working == <<best_route_gen, mean_sigma_gen, gen, parents, mother, father,
             children, mating, pick_mother, pick_father, genes, child,
             mutate_roll, mutate_hits, mutate_path, mutate_path_id,
             final_gen_df>>

\* The variables of CreateInitialPopulation followed line by line, of
\* GeneticAlgorithmMenu, of ContactTfLAPI, of TimeAndDateMenu and of
\* RunGenAlg, each on its own.
creation == <<heap, create_path>>
menu == <<random_seed, second_value>>
api == <<attempt, tfl_api_data, responses>>
clock == <<time, date>>
launch == <<station_matrix_file, station_list_file, journey_time_matrix>>
interface == <<creation, menu, api, clock, launch>>

----------------------------------------------------------------------------
\* Python list operations (0-based indices).

At(list, i) == list[i + 1]

Last(list) == list[Len(list)]

\* list[lo:hi] for 0 <= lo, hi
Slice(list, lo, hi) ==
    LET h == IF hi > Len(list) THEN Len(list) ELSE hi
    IN  IF lo >= h THEN <<>> ELSE SubSeq(list, lo + 1, h)

Contains(list, x) == \E k \in 1..Len(list) : list[k] = x

\* list.index(x): the first index holding x (x is in the list)
IndexOf(list, x) == (CHOOSE k \in 1..Len(list) :
                        list[k] = x /\ \A j \in 1..(k - 1) : list[j] # x) - 1

\* del list[i]
DelAt(list, i) == SubSeq(list, 1, i) \o SubSeq(list, i + 2, Len(list))

\* list.remove(x): the first occurrence of x is deleted (x is in the list)
Remove(list, x) == DelAt(list, IndexOf(list, x))

\* list.insert(i, x) for i >= 0: an index beyond the end appends
InsertAt(list, i, x) ==
    LET k == IF i > Len(list) THEN Len(list) ELSE i
    IN  SubSeq(list, 1, k) \o <<x>> \o SubSeq(list, k + 1, Len(list))

\* list[i], list[j] = list[j], list[i]
Swap(list, i, j) ==
    [k \in 1..Len(list) |-> IF k = i + 1 THEN list[j + 1]
                            ELSE IF k = j + 1 THEN list[i + 1]
                            ELSE list[k]]

\* The orderings random.sample(list, len(list)) can return.
Samples(list) ==
    LET n == Len(list)
        perms == {p \in [1..n -> 1..n] : \A a, b \in 1..n : a # b => p[a] # p[b]}
    IN  {[k \in 1..n |-> list[p[k]]] : p \in perms}

Min(a, b) == IF a <= b THEN a ELSE b
Max(a, b) == IF a >= b THEN a ELSE b

----------------------------------------------------------------------------
\* Exact rationals.

Rat(n, d) == [num |-> n, den |-> d]

----------------------------------------------------------------------------
\* Floating point.  Fitness, Cum_Sum and CDF are float64 numbers (IEEE 754
\* binary64, rounded to the nearest, ties to the even mantissa).  A number
\* above 0 is mant * 2^exp with 2^52 <= mant < 2^53, and mant is held in
\* two limbs, hi * 2^27 + lo, for it exceeds the integers at hand; 0 has
\* mant 0 and exp 0, and inf, the quotient of a number above 0 and 0, has
\* mant 0 and exp 1.  No number here is negative, and none leaves the
\* range of the normal numbers.

Limb == 2^27

\* The integers below 2^54 held in two limbs, and the float64 numbers
Bigs == [hi : Int, lo : Int]
Doubles == [mant : Bigs, exp : Int]

\* An integer with whether bits have been dropped below it, and a long
\* division under way
Shifted == [x : Bigs, sticky : BOOLEAN]
Divisions == [q : Bigs, rest : Bigs, bits : Int]

BigOf[n \in Int] == [hi |-> n \div Limb, lo |-> n % Limb]

BigLess[a \in Bigs, b \in Bigs] == a.hi < b.hi \/ (a.hi = b.hi /\ a.lo < b.lo)

BigAdd[a \in Bigs, b \in Bigs] ==
    [hi |-> a.hi + b.hi + ((a.lo + b.lo) \div Limb),
     lo |-> (a.lo + b.lo) % Limb]

\* a - b for a >= b
BigSub[a \in Bigs, b \in Bigs] ==
    IF a.lo >= b.lo
    THEN [hi |-> a.hi - b.hi, lo |-> a.lo - b.lo]
    ELSE [hi |-> a.hi - b.hi - 1, lo |-> a.lo + Limb - b.lo]

BigHalf[a \in Bigs] ==
    [hi |-> a.hi \div 2, lo |-> (a.lo \div 2) + (a.hi % 2) * (Limb \div 2)]

BigOdd[a \in Bigs] == a.lo % 2 = 1

Two52 == [hi |-> 2^25, lo |-> 0]
Two53 == [hi |-> 2^26, lo |-> 0]
Two54 == [hi |-> 2^27, lo |-> 0]

Double(mant, exp) == [mant |-> mant, exp |-> exp]
DoubleZero == Double(BigOf[0], 0)
DoubleInf == Double(BigOf[0], 1)
DoubleNaN == Double(BigOf[0], 2)

\* The float64 nearest to (s.x + f) * 2^e, where s.x >= 2^53 is an integer
\* and 0 <= f < 1, with f > 0 just when s.sticky: the bits below the 53rd
\* are dropped and the mantissa goes up when they are more than half a
\* unit, or half a unit with the mantissa odd.
RoundShift[s \in Shifted, e \in Int] ==
    IF ~BigLess[s.x, Two54]
    THEN RoundShift[[x |-> BigHalf[s.x], sticky |-> s.sticky \/ BigOdd[s.x]],
                    e + 1]
    ELSE LET m == BigHalf[s.x]
             up == BigOdd[s.x] /\ (s.sticky \/ BigOdd[m])
             r == IF up THEN BigAdd[m, BigOf[1]] ELSE m
         IN  IF r = Two53 THEN Double(Two52, e + 2) ELSE Double(r, e + 1)

\* The float64 of the value mant * 2^exp for an integer 0 < mant < 2^53:
\* the mantissa is brought to 53 bits, eight bits at a time while it has
\* fewer than 45.
Normalise[x \in Doubles] ==
    IF x.mant.hi < 2^17
    THEN Normalise[Double([hi |-> x.mant.hi * 2^8 + (x.mant.lo \div 2^19),
                           lo |-> (x.mant.lo % 2^19) * 2^8],
                          x.exp - 8)]
    ELSE IF BigLess[x.mant, Two52]
    THEN Normalise[Double(BigAdd[x.mant, x.mant], x.exp - 1)]
    ELSE x

\* float(n) for an int 0 <= n < 2^31
DoubleOfInt[n \in Int] ==
    IF n = 0 THEN DoubleZero ELSE Normalise[Double(BigOf[n], 0)]

\* One bit of the long division by y: from the quotient q so far and the
\* remainder rest < y, to 2 * q + floor(2 * rest / y) and the remainder
\* left; bits counts the bits still to make.
QuotientBit[d \in Divisions, y \in Bigs] ==
    LET twice == BigAdd[d.rest, d.rest]
        one == ~BigLess[twice, y]
    IN  [q |-> IF one THEN BigAdd[BigAdd[d.q, d.q], BigOf[1]]
               ELSE BigAdd[d.q, d.q],
         rest |-> IF one THEN BigSub[twice, y] ELSE twice,
         bits |-> d.bits - 1]

\* The long division by y carried to its last bit: the quotient, and
\* whether a remainder is left
Quotient[d \in Divisions, y \in Bigs] ==
    IF d.bits = 0 THEN [x |-> d.q, sticky |-> d.rest # BigOf[0]]
    ELSE Quotient[QuotientBit[d, y], y]

\* x / y in float64 (numpy: a number above 0 over 0 is inf, 0 over 0 nan)
DoubleDiv[x \in Doubles, y \in Doubles] ==
    IF x = DoubleNaN \/ y = DoubleNaN THEN DoubleNaN
    ELSE IF x = DoubleInf
    THEN (IF y = DoubleInf THEN DoubleNaN ELSE DoubleInf)
    ELSE IF y = DoubleInf THEN DoubleZero
    ELSE IF y = DoubleZero
    THEN (IF x = DoubleZero THEN DoubleNaN ELSE DoubleInf)
    ELSE IF x = DoubleZero THEN DoubleZero
    ELSE LET first == ~BigLess[x.mant, y.mant]
         IN  RoundShift[Quotient[[q |-> BigOf[IF first THEN 1 ELSE 0],
                                  rest |-> IF first
                                           THEN BigSub[x.mant, y.mant]
                                           ELSE x.mant,
                                  bits |-> 55],
                                 y.mant],
                        x.exp - y.exp - 55]

\* s.x with its last bits many bits dropped, eight at a time, and whether
\* a dropped bit was 1 (or s.sticky held already)
ShiftDown[s \in Shifted, bits \in Int] ==
    IF bits = 0 \/ s.x = BigOf[0] THEN s
    ELSE IF bits >= 8
    THEN ShiftDown[[x |-> [hi |-> s.x.hi \div 2^8,
                           lo |-> (s.x.lo \div 2^8) + (s.x.hi % 2^8) * 2^19],
                    sticky |-> s.sticky \/ s.x.lo % 2^8 # 0],
                   bits - 8]
    ELSE ShiftDown[[x |-> BigHalf[s.x], sticky |-> s.sticky \/ BigOdd[s.x]],
                   bits - 1]

\* x + y in float64
DoubleAdd[x \in Doubles, y \in Doubles] ==
    IF x = DoubleNaN \/ y = DoubleNaN THEN DoubleNaN
    ELSE IF x = DoubleInf \/ y = DoubleInf THEN DoubleInf
    ELSE IF x = DoubleZero THEN y
    ELSE IF y = DoubleZero THEN x
    ELSE LET a == IF x.exp >= y.exp THEN x ELSE y
             b == IF x.exp >= y.exp THEN y ELSE x
             small == ShiftDown[[x |-> BigAdd[BigAdd[b.mant, b.mant],
                                              BigAdd[b.mant, b.mant]],
                                 sticky |-> FALSE],
                                a.exp - b.exp]
         IN  RoundShift[[x |-> BigAdd[BigAdd[BigAdd[a.mant, a.mant],
                                             BigAdd[a.mant, a.mant]],
                                      small.x],
                         sticky |-> small.sticky],
                        a.exp - 2]

\* x < y and x <= y in float64: no comparison with nan is true
DoubleLess[x \in Doubles, y \in Doubles] ==
    /\ x # DoubleNaN /\ y # DoubleNaN
    /\ x # DoubleInf
    /\ x # y
    /\ \/ y = DoubleInf
       \/ x = DoubleZero
       \/ /\ y # DoubleZero
          /\ \/ x.exp < y.exp
             \/ x.exp = y.exp /\ BigLess[x.mant, y.mant]

DoubleLeq[x \in Doubles, y \in Doubles] == x # DoubleNaN /\ y # DoubleNaN /\ (x = y \/ DoubleLess[x, y])

\* The value of random.random() held as the numerator k: random() returns
\* a multiple of 2^-53 below 1, here the greatest one that k/GridSize does
\* not exceed, floor(k * 2^53 / GridSize) * 2^-53 for k below GridSize (and
\* GridSize below 16) and (2^53 - 1) * 2^-53 for k = GridSize.
DrawValue(k) ==
    IF k = 0 THEN DoubleZero
    ELSE IF k >= GridSize
    THEN Double([hi |-> 2^26 - 1, lo |-> Limb - 1], 0 - 53)
    ELSE Normalise[Double([hi |-> (k * 2^26) \div GridSize,
                           lo |-> (((k * 2^26) % GridSize) * Limb)
                                      \div GridSize],
                          0 - 53)]

\* res += a[i] for the numbers of the list a in order, res being acc first
SumFrom[a \in Seq(Doubles), i \in Int, acc \in Doubles] ==
    IF i > Len(a) THEN acc
    ELSE SumFrom[a, i + 1, DoubleAdd[acc, a[i]]]

\* numpy's sum of 8 to 128 numbers: eight running sums r, each of every
\* eighth number, while eight numbers are left from index i on
BlockSum[a \in Seq(Doubles), i \in Int, r \in Seq(Doubles)] ==
    IF i + 7 > Len(a)
    THEN SumFrom[a, i,
             DoubleAdd[DoubleAdd[DoubleAdd[r[1], r[2]], DoubleAdd[r[3], r[4]]],
                       DoubleAdd[DoubleAdd[r[5], r[6]], DoubleAdd[r[7], r[8]]]]]
    ELSE BlockSum[a, i + 8,
                  <<DoubleAdd[r[1], a[i]], DoubleAdd[r[2], a[i + 1]],
                    DoubleAdd[r[3], a[i + 2]], DoubleAdd[r[4], a[i + 3]],
                    DoubleAdd[r[5], a[i + 4]], DoubleAdd[r[6], a[i + 5]],
                    DoubleAdd[r[7], a[i + 6]], DoubleAdd[r[8], a[i + 7]]>>]

\* Series.sum(), which is numpy's add.reduce: the numbers are added in
\* order when they are fewer than 8, in eight interleaved sums up to 128,
\* and by halves beyond.
PairwiseSum[a \in Seq(Doubles)] ==
    IF Len(a) < 8 THEN SumFrom[a, 1, DoubleZero]
    ELSE IF Len(a) <= 128 THEN BlockSum[a, 9, SubSeq(a, 1, 8)]
    ELSE LET half == (Len(a) \div 2) - ((Len(a) \div 2) % 8)
         IN  DoubleAdd[PairwiseSum[SubSeq(a, 1, half)],
                       PairwiseSum[SubSeq(a, half + 1, Len(a))]]

\* Series.cumsum(): the running sums of a, those in done being made
CumulativeSums[a \in Seq(Doubles), done \in Seq(Doubles)] ==
    IF Len(done) >= Len(a) THEN done
    ELSE IF done = <<>> THEN CumulativeSums[a, <<a[1]>>]
    ELSE CumulativeSums[a, Append(done, DoubleAdd[Last(done),
                                                  a[Len(done) + 1]])]

----------------------------------------------------------------------------
\* station_route.py

\* The journey-time matrix handed to SetJourneyTimes: hollow and symmetric.
\* Stations 1, 2, 3 have the durations 5 (1-2), 10 (1-3) and 3 (2-3).
JourneyTime(a, b) ==
    LET lo == Min(a, b)
        hi == Max(a, b)
    IN  IF a = b THEN 0
        ELSE IF lo = 1 /\ hi = 2 THEN 5
        ELSE IF lo = 1 /\ hi = 3 THEN 10
        ELSE IF lo = 2 /\ hi = 3 THEN 3
        ELSE ((3 * lo + 5 * hi) % 7) + 2

\* Station.SetTimeTo for every station of a list of n stations
SetJourneyTimes(n) == [s \in 1..n |-> [t \in 1..n |-> JourneyTime(s, t)]]

RECURSIVE SumDurations(_, _)
\* the loop of Route.__init__ from index i on
SumDurations(path, i) ==
    IF i >= Len(path) - 1 THEN 0
    ELSE time_to[At(path, i)][At(path, i + 1)] + SumDurations(path, i + 1)

\* Route(path) with the loop of __init__ stopping one pair early.
RouteSkipsLastLeg(path) ==
    [path |-> path,
     time_taken |-> SumDurations(SubSeq(path, 1, Len(path) - 1), 0)]

\* Route(path)
Route(path) == [path |-> path, time_taken |-> SumDurations(path, 0)]

----------------------------------------------------------------------------
\* gen_alg_LUstations.py: the functions.

\* CreateRoute without lines 31 and 33: the whole list is shuffled.
CreateRouteShufflesAll(stations, first) ==
    {Route(p) : p \in Samples(stations)}

\* The Route objects CreateRoute(station_list, first_station) can return.
CreateRoute(stations, first) ==
    {Route(InsertAt(p, 0, first)) : p \in Samples(Remove(stations, first))}

RECURSIVE InsertSorted(_, _)
\* r placed after every route that is not slower: sorted() is stable
InsertSorted(sorted, r) ==
    IF sorted = <<>> THEN <<r>>
    ELSE IF Last(sorted).time_taken <= r.time_taken THEN Append(sorted, r)
    ELSE Append(InsertSorted(SubSeq(sorted, 1, Len(sorted) - 1), r), Last(sorted))

RECURSIVE SortRoutesDescending(_)
\* SortRoutes ranking the slowest route first.
SortRoutesDescending(routes) ==
    IF routes = <<>> THEN <<>>
    ELSE LET slowest == CHOOSE k \in 1..Len(routes) :
                            \A j \in 1..Len(routes) :
                                routes[j].time_taken <= routes[k].time_taken
         IN  <<routes[slowest]>> \o SortRoutesDescending(DelAt(routes, slowest - 1))

\* SortRoutes returning the list as it was handed.
SortRoutesUnsorted(routes) == routes

RECURSIVE SortRoutes(_)
SortRoutes(routes) ==
    IF routes = <<>> THEN <<>>
    ELSE InsertSorted(SortRoutes(SubSeq(routes, 1, Len(routes) - 1)), Last(routes))

\* The fitness of a route being its duration.
FitnessIsDuration(route) == DoubleOfInt[route.time_taken]

\* line 76: 1. / time_taken, the float64 quotient
Fitness(route) == DoubleDiv[DoubleOfInt[1], DoubleOfInt[route.time_taken]]

\* Line 76: the column Fitness, a row's 1. / time_taken.  Lines 81 and
\* 82: Cum_Sum is the running sum of the fitnesses, each sum rounded, and
\* CDF its rounded quotient by Fitness.sum().
SetParentsFitness(sorted_routes) ==
    LET FitnessColumn[done \in Seq(Doubles)] ==
            IF Len(done) >= Len(sorted_routes) THEN done
            ELSE FitnessColumn[
                     Append(done, Fitness(sorted_routes[Len(done) + 1]))]
        Rows[fitness \in Seq(Doubles), cum_sum \in Seq(Doubles),
             total \in Doubles] ==
            [k \in 1..Len(sorted_routes) |->
                [Route   |-> sorted_routes[k],
                 Fitness |-> fitness[k],
                 Cum_Sum |-> cum_sum[k],
                 CDF     |-> DoubleDiv[cum_sum[k], total]]]
        Sums[fitness \in Seq(Doubles)] ==
            Rows[fitness, CumulativeSums[fitness, <<>>], PairwiseSum[fitness]]
    IN  Sums[FitnessColumn[<<>>]]

\* The comparison of a draw with a row's CDF made strict.
PickHitsStrict(pick, cdf) == DoubleLess[DrawValue(pick), cdf]

\* The comparison of a draw with a row's CDF (lines 117, 124 and 141).
PickHits(pick, cdf) == DoubleLeq[DrawValue(pick), cdf]

\* The comparison of line 135 always finding the parents equal.
SameRouteAlways(mother_row, father_row) == TRUE

\* The comparison of line 135, mother[-1] == father[-1]: Route defines no
\* __eq__, so two Routes are equal when they are the same object, and the
\* rows of the dataframe hold different objects.
SameRoute(mother_row, father_row) == mother_row = father_row

\* The row a scan over the dataframe selects for the draw pick: the first
\* row whose CDF the draw does not exceed; -1 when the scan selects none.
ScanRow(table, pick) ==
    IF \E k \in 1..Len(table) : PickHits(pick, table[k].CDF)
    THEN (CHOOSE k \in 1..Len(table) :
              /\ PickHits(pick, table[k].CDF)
              /\ \A j \in 1..(k - 1) : ~PickHits(pick, table[j].CDF)) - 1
    ELSE -1

RECURSIVE RemoveAll(_, _)
\* lines 217-218: child.remove(gene) for every gene of the segment
RemoveAll(list, segment) ==
    IF segment = <<>> THEN list
    ELSE RemoveAll(Remove(list, Head(segment)), Tail(segment))

RECURSIVE InsertAll(_, _, _)
\* lines 222-223: child.insert(father.index(gene), gene) for every gene
InsertAll(list, segment, father_path) ==
    IF segment = <<>> THEN list
    ELSE InsertAll(InsertAt(list, IndexOf(father_path, Head(segment)), Head(segment)),
                   Tail(segment), father_path)

\* Splice inserting father[first_gene:last_gene+1] after having removed
\* father[first_gene:last_gene].
SpliceInsertsOneMore(mother_path, father_path, gene_pair) ==
    LET first_gene == Min(gene_pair[1], gene_pair[2])
        last_gene  == Max(gene_pair[1], gene_pair[2])
        segment    == Slice(father_path, first_gene, last_gene)
        inserted   == Slice(father_path, first_gene, last_gene + 1)
    IN  InsertAll(RemoveAll(mother_path, segment), inserted, father_path)

\* Splice inserting each gene at its index in the mother's path.
SpliceAtMotherIndex(mother_path, father_path, gene_pair) ==
    LET first_gene == Min(gene_pair[1], gene_pair[2])
        last_gene  == Max(gene_pair[1], gene_pair[2])
        segment    == Slice(father_path, first_gene, last_gene)
    IN  InsertAll(RemoveAll(mother_path, segment), segment, mother_path)

\* lines 210-223: the child's path from the parents' paths and the two genes
Splice(mother_path, father_path, gene_pair) ==
    LET first_gene == Min(gene_pair[1], gene_pair[2])
        last_gene  == Max(gene_pair[1], gene_pair[2])
        segment    == Slice(father_path, first_gene, last_gene)
    IN  InsertAll(RemoveAll(mother_path, segment), segment, father_path)

RECURSIVE SumOf(_)
SumOf(numbers) ==
    IF numbers = <<>> THEN 0 ELSE Head(numbers) + SumOf(Tail(numbers))

\* GeneticAlgorithm lines 324-325 and 338-340: the entry of mean_sigma_gen
\* for a population.  np.mean is sum/n; np.std is the square root of the
\* mean of (x - mean)^2, and the entry holds that mean of squares, an exact
\* rational, in place of its root: with total = sum(x), (x - mean)^2 is
\* (n*x - total)^2 / n^2.
MeanSigma(routes) ==
    LET route_durations == [k \in 1..Len(routes) |-> routes[k].time_taken]
        n == Len(routes)
        total == SumOf(route_durations)
        deviations == [k \in 1..n |->
                          (n * route_durations[k] - total)
                          * (n * route_durations[k] - total)]
    IN  [mean |-> Rat(total, n),
         std_squared |-> Rat(SumOf(deviations), n * n * n)]

\* The test of the generation loop running one iteration too many.
GenerationsLeftInclusive(done, n) == done <= n

\* GeneticAlgorithm line 328, for gen in range(n_generations): whether an
\* iteration follows when done iterations are completed.
GenerationsLeft(done, n) == done < n

\* lines 267-268
SwapStations(path, gene_pair) == Swap(path, gene_pair[1], gene_pair[2])

\* The test of line 249 with the comparison the other way round.
MutationTriggeredAbove(roll, rate) == roll > rate

\* line 249, mutate_roll <= mutation_rate: the numerators compare as the
\* numbers do, the rate being 0.0 or 1.0 (MutationRates)
MutationTriggered(roll, rate) == roll <= rate

\* The values of random.random(), as numerators over GridSize: the
\* multiples of 1/GridSize from 0.0 on and, as GridSize, the value next
\* below 1.
Draws == 0..GridSize

\* The values of random.randint(0, len(path)-1).
GeneDrawsFromZero(path) == 0..(Len(path) - 1)

\* The values of random.randint(1, len(path)-1).
GeneDraws(path) == 1..(Len(path) - 1)

\* The mutation rates a run is started with, as numerators over GridSize.
MutationRates == {0, GridSize}

\* Value of a local variable that is not bound: a list, a number, and an
\* identity.
None == <<>>
NoDraw == 0 - 1
NoObject == 0 - 1

\* Every Route object a state holds: the population, the rows of the
\* dataframes and the list of children.
RoutesOf(list) == {list[k] : k \in 1..Len(list)}
RowRoutes(table) == {table[k].Route : k \in 1..Len(table)}
AllRoutes == RoutesOf(population) \cup RoutesOf(children)
             \cup RowRoutes(parents) \cup RowRoutes(final_gen_df)

\* The identities of the Route objects in use when the list of children
\* is kids, and of the list objects in use.
RouteIds(kids) ==
    {r.id : r \in RoutesOf(population) \cup RoutesOf(kids)
                   \cup RowRoutes(parents) \cup RowRoutes(final_gen_df)}
ListIds ==
    {r.path_id : r \in AllRoutes}
    \cup (IF mutate_path_id = NoObject THEN {} ELSE {mutate_path_id})

\* The identity a new object is given: the least one not in use.
FreshId(used) ==
    CHOOSE i \in 0..Cardinality(used) :
        i \notin used /\ \A j \in 0..(i - 1) : j \in used

\* The copy of a list being the list itself.
CopyIsAlias(list_id, used) == list_id

\* list[:], as identities: the copy of the list list_id is a new list
\* (Procreate line 214, Mutate line 253).
Copy(list_id, used) == FreshId(used)

\* The object Route(path) creates: attrs are the attributes __init__ sets,
\* path_id the list handed to it, which it binds to self.path as it is
\* (station_route.py line 33).
Object(attrs, id, path_id) ==
    [path |-> attrs.path, time_taken |-> attrs.time_taken,
     id |-> id, path_id |-> path_id]

\* A file name that is None.
NoFile == 0 - 1

\* A local variable that no assignment has bound, and one bound to the
\* number num/den (an int has den = 1).
Unbound == [bound |-> FALSE, num |-> 0, den |-> 1]
Number(num, den) == [bound |-> TRUE, num |-> num, den |-> den]

\* None of the functions that are followed on their own has been entered.
CreationIdle ==
    /\ heap = <<>>
    /\ create_path = NoObject
MenuIdle ==
    /\ random_seed = 0
    /\ second_value = Unbound
ApiIdle ==
    /\ attempt = 0
    /\ tfl_api_data = None
    /\ responses = <<>>
ClockIdle ==
    /\ time = None
    /\ date = None
LaunchIdle ==
    /\ station_matrix_file = NoFile
    /\ station_list_file = NoFile
    /\ journey_time_matrix = None
InterfaceIdle ==
    /\ CreationIdle
    /\ MenuIdle
    /\ ApiIdle
    /\ ClockIdle
    /\ LaunchIdle

\* GeneticAlgorithm's variables below population, and its callees', are
\* not bound.
WorkingIdle ==
    /\ best_route_gen = <<>>
    /\ mean_sigma_gen = <<>>
    /\ gen = 0
    /\ parents = None
    /\ mother = None
    /\ father = None
    /\ children = None
    /\ mating = 0
    /\ pick_mother = NoDraw
    /\ pick_father = NoDraw
    /\ genes = None
    /\ child = 0
    /\ mutate_roll = NoDraw
    /\ mutate_hits = <<>>
    /\ mutate_path = None
    /\ mutate_path_id = NoObject
    /\ final_gen_df = None

\* No call of Route(path) on its own is under way.
ConstructionIdle ==
    /\ init_path = None
    /\ init_i = 0
    /\ duration = 0
    /\ new_route = None

----------------------------------------------------------------------------
\* GeneticAlgorithm as a state machine.

\* GeneticAlgorithm is entered (line 300) on a list of 3 to MaxSize - 1
\* stations, with 1 to MaxSize - 3 routes per generation.  The dataframes
\* of these runs have fewer than 8 rows, so that their last CDF is 1.0 and
\* every draw selects a row; the runs on 8 routes and more, where a draw
\* can exceed the last CDF, are those of InitSelect below.
Init ==
    /\ \E n \in 3..(MaxSize - 1) :
          /\ station_list = [k \in 1..n |-> k]
          /\ first_station \in {1, n}
          /\ time_to = SetJourneyTimes(n)
          /\ pop_size \in 1..(MaxSize - n)
          /\ n_generations \in 0..Min(MaxGen, MaxSize + 1 - n - pop_size)
    /\ elite_size \in 0..pop_size
    /\ mutation_rate \in MutationRates
    /\ pc = "create_initial_population"
    /\ population = <<>>
    /\ best_route_gen = <<>>
    /\ mean_sigma_gen = <<>>
    /\ gen = 0
    /\ parents = None
    /\ mother = None
    /\ father = None
    /\ children = None
    /\ mating = 0
    /\ pick_mother = NoDraw
    /\ pick_father = NoDraw
    /\ genes = None
    /\ child = 0
    /\ mutate_roll = NoDraw
    /\ mutate_hits = <<>>
    /\ mutate_path = None
    /\ mutate_path_id = NoObject
    /\ final_gen_df = None
    /\ init_path = None
    /\ init_i = 0
    /\ duration = 0
    /\ new_route = None
    /\ InterfaceIdle

\* CreateInitialPopulation, one iteration of its loop (lines 48-49).
CreateInitialPopulationStep ==
    /\ pc = "create_initial_population"
    /\ Len(population) < pop_size
    /\ \E route \in CreateRoute(station_list, first_station) :
          population' = Append(population,
                               Object(route, FreshId(RouteIds(children)),
                                      FreshId(ListIds)))
    /\ UNCHANGED <<params, construction, interface, pc, best_route_gen,
                   mean_sigma_gen, gen, parents, mother, father, children,
                   mating, pick_mother, pick_father, genes, child,
                   mutate_roll, mutate_hits, mutate_path, mutate_path_id,
                   final_gen_df>>

\* GeneticAlgorithm lines 315-325: the initial population is returned,
\* sorted, and its best duration recorded.
SortInitialPopulation ==
    /\ pc = "create_initial_population"
    /\ Len(population) = pop_size
    /\ population' = SortRoutes(population)
    /\ best_route_gen' = <<At(population', 0).time_taken>>
    /\ mean_sigma_gen' = <<MeanSigma(population')>>
    /\ pc' = "generation"
    /\ UNCHANGED <<params, construction, interface, gen, parents, mother,
                   father, children, mating, pick_mother, pick_father, genes,
                   child, mutate_roll, mutate_hits, mutate_path,
                   mutate_path_id, final_gen_df>>

\* The elite rows taken from the bottom of the ranking.
ElitesFromBottom(table, n_elite) ==
    [k \in 1..n_elite |-> table[Len(table) - n_elite + k].Route]

\* The elite rows carried over (Procreate lines 187-188).
Elites(table, n_elite) == [k \in 1..n_elite |-> table[k].Route]

\* GeneticAlgorithm line 328-330, CreateNextGeneration line 283, Procreate
\* lines 183-191 up to the call of SelectParents.
BeginGeneration ==
    /\ pc = "generation"
    /\ GenerationsLeft(gen, n_generations)
    /\ mutate_hits' = <<>>
    /\ parents' = SetParentsFitness(population)
    /\ children' = Elites(parents', elite_size)
    /\ mother' = <<>>
    /\ father' = <<>>
    /\ mating' = 0
    /\ pc' = "select_parents"
    /\ UNCHANGED <<params, construction, interface, population,
                   best_route_gen, mean_sigma_gen, gen, pick_mother,
                   pick_father, genes, child, mutate_roll, mutate_path,
                   mutate_path_id, final_gen_df>>

\* SelectParents, one iteration of its outer loop up to the test of line
\* 135 (lines 103-135).  A parent is appended at the first row whose CDF
\* the draw does not exceed (lines 117-127); when the draw exceeds the CDF
\* of every row, the inner loop ends without appending that parent, and
\* the test of line 131 is never met in this iteration.
SelectParentsStep ==
    /\ pc = "select_parents"
    /\ mating < Len(parents) - elite_size
    /\ \E pm, pf \in Draws :
          LET m == ScanRow(parents, pm)
              f == ScanRow(parents, pf)
          IN  /\ pick_mother' = pm
              /\ pick_father' = pf
              /\ mother' = IF m >= 0 THEN Append(mother, m) ELSE mother
              /\ father' = IF f >= 0 THEN Append(father, f) ELSE father
              /\ IF m >= 0 /\ f >= 0 /\ SameRoute(m, f)
                 THEN pc' = "reroll_father" /\ mating' = mating
                 ELSE pc' = "select_parents" /\ mating' = mating + 1
    /\ UNCHANGED <<params, construction, interface, population,
                   best_route_gen, mean_sigma_gen, gen, parents, children,
                   genes, child, mutate_roll, mutate_hits, mutate_path,
                   mutate_path_id, final_gen_df>>

\* SelectParents, one iteration of the loop of lines 135-146.
RerollFather ==
    /\ pc = "reroll_father"
    /\ \E pf \in Draws :
          LET f == ScanRow(parents, pf)
          IN  /\ pick_father' = pf
              /\ father' = IF f >= 0 THEN [father EXCEPT ![Len(father)] = f]
                            ELSE father
              /\ IF SameRoute(Last(mother), Last(father'))
                 THEN pc' = "reroll_father" /\ mating' = mating
                 ELSE pc' = "select_parents" /\ mating' = mating + 1
    /\ UNCHANGED <<params, construction, interface, population,
                   best_route_gen, mean_sigma_gen, gen, parents, mother,
                   children, pick_mother, genes, child, mutate_roll,
                   mutate_hits, mutate_path, mutate_path_id, final_gen_df>>

\* SelectParents returns mother and father (line 151).
SelectParentsReturn ==
    /\ pc = "select_parents"
    /\ mating = Len(parents) - elite_size
    /\ pc' = "procreate"
    /\ mating' = 0
    /\ pick_mother' = NoDraw
    /\ pick_father' = NoDraw
    /\ UNCHANGED <<params, construction, interface, population,
                   best_route_gen, mean_sigma_gen, gen, parents, mother,
                   father, children, genes, child, mutate_roll, mutate_hits,
                   mutate_path, mutate_path_id, final_gen_df>>

MotherRoute == parents[At(mother, mating) + 1].Route
MotherPath == MotherRoute.path
FatherPath == parents[At(father, mating) + 1].Route.path

\* Procreate lines 214-226: the child of the current mating, a new Route
\* on a copy of the mother's path.
Child(gene_pair) ==
    Object(Route(Splice(MotherPath, FatherPath, gene_pair)),
           FreshId(RouteIds(children)), Copy(MotherRoute.path_id, ListIds))

\* Procreate, one iteration of its mating loop (for mating in
\* range(len(mother))) up to the test of line 206 and, when the genes
\* differ, to its end (lines 194-226).  father[mating] of line 201 raises
\* IndexError when SelectParents returned fewer fathers than mothers;
\* nothing catches it and the run ends.
ProcreateStep ==
    /\ pc = "procreate"
    /\ mating < Len(mother)
    /\ IF mating >= Len(father)
       THEN /\ pc' = "index_error"
            /\ UNCHANGED <<genes, children, mating>>
       ELSE \E g0, g1 \in GeneDraws(FatherPath) :
              /\ genes' = <<g0, g1>>
              /\ IF g0 = g1
                 THEN /\ pc' = "reroll_gene"
                      /\ UNCHANGED <<children, mating>>
                 ELSE /\ pc' = "procreate"
                      /\ children' = Append(children, Child(genes'))
                      /\ mating' = mating + 1
    /\ UNCHANGED <<params, construction, interface, population,
                   best_route_gen, mean_sigma_gen, gen, parents, mother,
                   father, pick_mother, pick_father, child, mutate_roll,
                   mutate_hits, mutate_path, mutate_path_id, final_gen_df>>

\* Procreate, one iteration of the loop of lines 206-207 and, when it
\* ends, the rest of the mating (lines 210-226).
RerollGene ==
    /\ pc = "reroll_gene"
    /\ \E g1 \in GeneDraws(FatherPath) :
          /\ genes' = <<genes[1], g1>>
          /\ IF genes[1] = g1
             THEN /\ pc' = "reroll_gene"
                  /\ UNCHANGED <<children, mating>>
             ELSE /\ pc' = "procreate"
                  /\ children' = Append(children, Child(genes'))
                  /\ mating' = mating + 1
    /\ UNCHANGED <<params, construction, interface, population,
                   best_route_gen, mean_sigma_gen, gen, parents, mother,
                   father, pick_mother, pick_father, child, mutate_roll,
                   mutate_hits, mutate_path, mutate_path_id, final_gen_df>>

\* Mutate's loop starting after the elites.
MutateFromFirstChild == elite_size

\* Mutate line 243, for child in range(len(children)): the first index.
MutateFrom == 0

\* Procreate returns children (line 228) and Mutate is entered (line 291).
ProcreateReturn ==
    /\ pc = "procreate"
    /\ mating = Len(mother)
    /\ pc' = "mutate"
    /\ child' = MutateFrom
    /\ mother' = None
    /\ father' = None
    /\ genes' = None
    /\ mating' = 0
    /\ UNCHANGED <<params, construction, interface, population,
                   best_route_gen, mean_sigma_gen, gen, parents, children,
                   pick_mother, pick_father, mutate_roll, mutate_hits,
                   mutate_path, mutate_path_id, final_gen_df>>

\* Mutate line 271: the Route created on the swapped copy, when the list of
\* children, the route to replace deleted, is kids.
Mutated(kids, path, path_id) ==
    Object(Route(path), FreshId(RouteIds(kids)), path_id)

\* Mutate, one iteration of its loop up to the test of line 263 and, when
\* the genes differ or no mutation is due, to its end (lines 243-271).
MutateStep ==
    /\ pc = "mutate"
    /\ child < Len(children)
    /\ \E roll \in Draws :
          /\ mutate_roll' = roll
          /\ mutate_hits' = Append(mutate_hits, MutationTriggered(roll, mutation_rate))
          /\ IF MutationTriggered(roll, mutation_rate)
             THEN \E g0, g1 \in GeneDraws(At(children, child).path) :
                    /\ genes' = <<g0, g1>>
                    /\ mutate_path_id' = Copy(At(children, child).path_id, ListIds)
                    /\ IF g0 = g1
                       THEN /\ mutate_path' = At(children, child).path
                            /\ children' = DelAt(children, child)
                            /\ pc' = "reroll_swap"
                            /\ child' = child
                       ELSE /\ mutate_path' =
                                 SwapStations(At(children, child).path, genes')
                            /\ children' = InsertAt(DelAt(children, child), child,
                                                    Mutated(DelAt(children, child),
                                                            mutate_path', mutate_path_id'))
                            /\ pc' = "mutate"
                            /\ child' = child + 1
             ELSE /\ child' = child + 1
                  /\ UNCHANGED <<pc, children, genes, mutate_path, mutate_path_id>>
    /\ UNCHANGED <<params, construction, interface, population,
                   best_route_gen, mean_sigma_gen, gen, parents, mother,
                   father, mating, pick_mother, pick_father, final_gen_df>>

\* Mutate, one iteration of the loop of lines 263-264 and, when it ends,
\* the swap and the reinsertion (lines 267-271).
RerollSwap ==
    /\ pc = "reroll_swap"
    /\ \E g1 \in GeneDraws(mutate_path) :
          /\ genes' = <<genes[1], g1>>
          /\ IF genes[1] = g1
             THEN /\ pc' = "reroll_swap"
                  /\ UNCHANGED <<children, child, mutate_path>>
             ELSE /\ mutate_path' = SwapStations(mutate_path, genes')
                  /\ children' = InsertAt(children, child,
                                          Mutated(children, mutate_path', mutate_path_id))
                  /\ pc' = "mutate"
                  /\ child' = child + 1
    /\ UNCHANGED <<params, construction, interface, population,
                   best_route_gen, mean_sigma_gen, gen, parents, mother,
                   father, mating, pick_mother, pick_father, mutate_roll,
                   mutate_hits, mutate_path_id, final_gen_df>>

\* Mutate returns (line 273), CreateNextGeneration sorts and returns (lines
\* 294-297) and GeneticAlgorithm records the best duration (lines 330-336).
FinishGeneration ==
    /\ pc = "mutate"
    /\ child = Len(children)
    /\ population' = SortRoutes(children)
    /\ best_route_gen' = Append(best_route_gen, At(population', 0).time_taken)
    /\ mean_sigma_gen' = Append(mean_sigma_gen, MeanSigma(population'))
    /\ gen' = gen + 1
    /\ pc' = "generation"
    /\ parents' = None
    /\ children' = None
    /\ child' = 0
    /\ mutate_roll' = NoDraw
    /\ mutate_path' = None
    /\ mutate_path_id' = NoObject
    /\ genes' = None
    /\ UNCHANGED <<params, construction, interface, mother, father, mating,
                   pick_mother, pick_father, mutate_hits, final_gen_df>>

\* GeneticAlgorithm lines 344-347: the final dataframe, with its Duration
\* column, is built and returned.
ReturnResults ==
    /\ pc = "generation"
    /\ ~GenerationsLeft(gen, n_generations)
    /\ \E df \in {SetParentsFitness(population)} :
          final_gen_df' =
             [k \in 1..Len(df) |->
                 [Route    |-> df[k].Route,
                  Fitness  |-> df[k].Fitness,
                  Cum_Sum  |-> df[k].Cum_Sum,
                  CDF      |-> df[k].CDF,
                  Duration |-> df[k].Route.time_taken]]
    /\ pc' = "done"
    /\ UNCHANGED <<params, construction, interface, population,
                   best_route_gen, mean_sigma_gen, gen, parents, mother,
                   father, children, mating, pick_mother, pick_father, genes,
                   child, mutate_roll, mutate_hits, mutate_path,
                   mutate_path_id>>

Next ==
    \/ CreateInitialPopulationStep
    \/ SortInitialPopulation
    \/ BeginGeneration
    \/ SelectParentsStep
    \/ RerollFather
    \/ SelectParentsReturn
    \/ ProcreateStep
    \/ RerollGene
    \/ ProcreateReturn
    \/ MutateStep
    \/ RerollSwap
    \/ FinishGeneration
    \/ ReturnResults

Spec == Init /\ [][Next]_vars

\* The interpreter goes on while the program has a step to take, and the
\* random source is fair: a redraw loop (lines 135-146, 206-207, 263-264)
\* that some value of the draw ends does not go on drawing other values
\* for ever.
Fairness ==
    /\ WF_vars(Next)
    /\ WF_vars(RerollFather /\ pc' # "reroll_father")
    /\ WF_vars(RerollGene /\ pc' # "reroll_gene")
    /\ WF_vars(RerollSwap /\ pc' # "reroll_swap")

SpecFair == Init /\ [][Next]_vars /\ Fairness

----------------------------------------------------------------------------
\* GeneticAlgorithm on the smallest inputs it can be called with: a list of
\* 2 stations (the functions check no parameter), and, beside it, a list of
\* 3 stations, each with as few as one route per generation.

InitSmall ==
    /\ \E n \in 2..3 :
          /\ station_list = [k \in 1..n |-> k]
          /\ first_station \in {1, n}
          /\ time_to = SetJourneyTimes(n)
          /\ pop_size \in 1..(MaxSize - 3)
          /\ n_generations \in 0..Min(MaxGen, MaxSize + 1 - n - pop_size)
    /\ elite_size \in 0..pop_size
    /\ mutation_rate \in MutationRates
    /\ pc = "create_initial_population"
    /\ population = <<>>
    /\ best_route_gen = <<>>
    /\ mean_sigma_gen = <<>>
    /\ gen = 0
    /\ parents = None
    /\ mother = None
    /\ father = None
    /\ children = None
    /\ mating = 0
    /\ pick_mother = NoDraw
    /\ pick_father = NoDraw
    /\ genes = None
    /\ child = 0
    /\ mutate_roll = NoDraw
    /\ mutate_hits = <<>>
    /\ mutate_path = None
    /\ mutate_path_id = NoObject
    /\ final_gen_df = None
    /\ init_path = None
    /\ init_i = 0
    /\ duration = 0
    /\ new_route = None
    /\ InterfaceIdle

SpecSmall == InitSmall /\ [][Next]_vars

----------------------------------------------------------------------------
\* Procreate on its own: one mating of any two routes over a station list.
\* The run stands at line 194 of a generation with two routes, one of them
\* elite, and one selected pair of parents.

\* The example of Procreate's docstring (lines 169-179), A..F being 1..6.
DocMother == <<1, 2, 3, 4, 5, 6>>
DocFather == <<1, 6, 2, 5, 4, 3>>

InitProcreate ==
    /\ \/ \E n \in 3..MaxPath :
             /\ station_list = [k \in 1..n |-> k]
             /\ first_station \in {1, n}
             /\ time_to = SetJourneyTimes(n)
             /\ \E r1, r2 \in CreateRoute(station_list, first_station) :
                   population = SortRoutes(<<Object(r1, 0, 0), Object(r2, 1, 1)>>)
       \/ /\ station_list = [k \in 1..6 |-> k]
          /\ first_station = 1
          /\ time_to = SetJourneyTimes(6)
          /\ population = SortRoutes(<<Object(Route(DocMother), 0, 0),
                                       Object(Route(DocFather), 1, 1)>>)
    /\ n_generations = 1
    /\ pop_size = 2
    /\ elite_size = 1
    /\ mutation_rate \in MutationRates
    /\ pc = "procreate"
    /\ best_route_gen = <<At(population, 0).time_taken>>
    /\ mean_sigma_gen = <<MeanSigma(population)>>
    /\ gen = 0
    /\ parents = SetParentsFitness(population)
    /\ children = Elites(parents, elite_size)
    /\ \E m, f \in 0..1 :
          /\ ~SameRoute(m, f)
          /\ mother = <<m>>
          /\ father = <<f>>
    /\ mating = 0
    /\ pick_mother = NoDraw
    /\ pick_father = NoDraw
    /\ genes = None
    /\ child = 0
    /\ mutate_roll = NoDraw
    /\ mutate_hits = <<>>
    /\ mutate_path = None
    /\ mutate_path_id = NoObject
    /\ final_gen_df = None
    /\ init_path = None
    /\ init_i = 0
    /\ duration = 0
    /\ new_route = None
    /\ InterfaceIdle

NextProcreate ==
    \/ ProcreateStep
    \/ RerollGene
    \/ ProcreateReturn

SpecProcreate == InitProcreate /\ [][NextProcreate]_vars

----------------------------------------------------------------------------
\* SetParentsFitness on its own, handed a ranked list of Route objects.
\* The stations lie on a line, station t at the distance |t - s| from
\* station s, and the route of the duration d is the path [1, 1 + d].

\* The list has at most MaxRows routes.
MaxRows == 8
\* A route lasts at most MaxDuration.
MaxDuration == 3

\* Station.SetTimeTo for every station of a line of n stations
LineTimes(n) ==
    [s \in 1..n |-> [t \in 1..n |-> IF s <= t THEN t - s ELSE s - t]]

\* The durations of a ranked list, quickest first.
RankedDurations ==
    {ds \in UNION {[1..n -> 1..MaxDuration] : n \in 1..MaxRows} :
        \A k \in 1..(Len(ds) - 1) : ds[k] <= ds[k + 1]}

InitFitness ==
    /\ station_list = [k \in 1..(MaxDuration + 1) |-> k]
    /\ first_station = 1
    /\ time_to = LineTimes(MaxDuration + 1)
    /\ \E ds \in RankedDurations :
          population = [k \in 1..Len(ds) |->
                           Object(Route(<<1, 1 + ds[k]>>), k - 1, k - 1)]
    /\ n_generations = 0
    /\ pop_size = Len(population)
    /\ elite_size = 0
    /\ mutation_rate = 0
    /\ pc = "set_parents_fitness"
    /\ WorkingIdle
    /\ ConstructionIdle
    /\ InterfaceIdle

\* SetParentsFitness(population), lines 72-84
SetParentsFitnessCall ==
    /\ pc = "set_parents_fitness"
    /\ parents' = SetParentsFitness(population)
    /\ pc' = "fitness_returned"
    /\ UNCHANGED <<params, construction, interface, population,
                   best_route_gen, mean_sigma_gen, gen, mother, father,
                   children, mating, pick_mother, pick_father, genes, child,
                   mutate_roll, mutate_hits, mutate_path, mutate_path_id,
                   final_gen_df>>

NextFitness == SetParentsFitnessCall

SpecFitness == InitFitness /\ [][NextFitness]_vars

----------------------------------------------------------------------------
\* A generation on MaxRows routes, from the call of CreateNextGeneration to
\* the return of Procreate.  From 8 rows on Fitness.sum() adds in another
\* order than Fitness.cumsum(), the last CDF can be below 1, and a draw
\* of random.random() can exceed it.

\* SelectParents is asked for at most MaxMatings pairs.
MaxMatings == 2

\* The run stands at line 328, gen = 0: CreateInitialPopulation has made
\* MaxRows routes over 3 stations, here in ascending order of time_taken,
\* and GeneticAlgorithm has sorted them and recorded the first entries of
\* its histories (lines 315-325).
InitSelect ==
    /\ station_list = <<1, 2, 3>>
    /\ first_station = 1
    /\ time_to = SetJourneyTimes(3)
    /\ \E routes \in [1..MaxRows -> CreateRoute(station_list, first_station)] :
          /\ \A k \in 1..(MaxRows - 1) :
                routes[k].time_taken <= routes[k + 1].time_taken
          /\ population = [k \in 1..MaxRows |->
                              Object(routes[k], k - 1, k - 1)]
    /\ n_generations = 1
    /\ pop_size = MaxRows
    /\ elite_size \in (MaxRows - MaxMatings)..(MaxRows - 1)
    /\ mutation_rate = 0
    /\ pc = "generation"
    /\ best_route_gen = <<At(population, 0).time_taken>>
    /\ mean_sigma_gen = <<MeanSigma(population)>>
    /\ gen = 0
    /\ parents = None
    /\ mother = None
    /\ father = None
    /\ children = None
    /\ mating = 0
    /\ pick_mother = NoDraw
    /\ pick_father = NoDraw
    /\ genes = None
    /\ child = 0
    /\ mutate_roll = NoDraw
    /\ mutate_hits = <<>>
    /\ mutate_path = None
    /\ mutate_path_id = NoObject
    /\ final_gen_df = None
    /\ ConstructionIdle
    /\ InterfaceIdle

NextSelect ==
    \/ BeginGeneration
    \/ SelectParentsStep
    \/ RerollFather
    \/ SelectParentsReturn
    \/ ProcreateStep
    \/ RerollGene
    \/ ProcreateReturn

SpecSelect == InitSelect /\ [][NextSelect]_vars

----------------------------------------------------------------------------
\* Route(path) on its own, step by step, over Stations whose time_to may
\* lack entries (SetTimeTo zips whatever two lists it is handed).

\* The lookup of line 39 giving 0 for a missing entry.
TimeToOrZero(from_station, to_station) ==
    [raised |-> FALSE,
     value |-> IF to_station \in DOMAIN time_to[from_station]
               THEN time_to[from_station][to_station] ELSE 0]

\* station_route.py line 39, from_station.time_to[to_station]: the entry,
\* or a KeyError when the dict has none.
TimeTo(from_station, to_station) ==
    IF to_station \in DOMAIN time_to[from_station]
    THEN [raised |-> FALSE, value |-> time_to[from_station][to_station]]
    ELSE [raised |-> TRUE, value |-> NoDraw]

\* The lists of different stations among 1..n
Paths(n) ==
    {p \in UNION {[1..m -> 1..n] : m \in 0..n} :
        \A a, b \in 1..Len(p) : a # b => p[a] # p[b]}

InitRoute ==
    /\ \E n \in 2..(MaxPath - 1) :
          /\ station_list = [k \in 1..n |-> k]
          /\ \E unmapped \in SUBSET {pair \in (1..n) \X (1..n) : pair[1] # pair[2]} :
                /\ Cardinality(unmapped) <= MaxMissing
                /\ time_to = [s \in 1..n |->
                                [t \in {t \in 1..n : <<s, t>> \notin unmapped} |->
                                    JourneyTime(s, t)]]
          /\ init_path \in Paths(n)
    /\ first_station = 1
    /\ n_generations = 0
    /\ pop_size = 1
    /\ elite_size = 0
    /\ mutation_rate = 0
    /\ pc = "route_init"
    /\ init_i = 0
    /\ duration = 0
    /\ new_route = None
    /\ population = <<>>
    /\ best_route_gen = <<>>
    /\ mean_sigma_gen = <<>>
    /\ gen = 0
    /\ parents = None
    /\ mother = None
    /\ father = None
    /\ children = None
    /\ mating = 0
    /\ pick_mother = NoDraw
    /\ pick_father = NoDraw
    /\ genes = None
    /\ child = 0
    /\ mutate_roll = NoDraw
    /\ mutate_hits = <<>>
    /\ mutate_path = None
    /\ mutate_path_id = NoObject
    /\ final_gen_df = None
    /\ InterfaceIdle

\* Route.__init__, one iteration of its loop (lines 36-39): the lookup
\* either adds to duration or raises, and the exception leaves __init__.
RouteInitStep ==
    /\ pc = "route_init"
    /\ init_i < Len(init_path) - 1
    /\ LET from_station == At(init_path, init_i)
           to_station == At(init_path, init_i + 1)
           found == TimeTo(from_station, to_station)
       IN  IF found.raised
           THEN /\ pc' = "key_error"
                /\ UNCHANGED <<init_i, duration>>
           ELSE /\ duration' = duration + found.value
                /\ init_i' = init_i + 1
                /\ pc' = pc
    /\ UNCHANGED <<run, interface, time_to, init_path, new_route>>

\* Route.__init__ line 40 and the return of the constructor: the caller
\* has the object.
RouteInitReturn ==
    /\ pc = "route_init"
    /\ init_i >= Len(init_path) - 1
    /\ new_route' = [path |-> init_path, time_taken |-> duration]
    /\ pc' = "route_built"
    /\ UNCHANGED <<run, interface, time_to, init_path, init_i, duration>>

NextRoute ==
    \/ RouteInitStep
    \/ RouteInitReturn

SpecRoute == InitRoute /\ [][NextRoute]_vars

----------------------------------------------------------------------------
\* CreateInitialPopulation followed line by line.  Lists are objects of a
\* heap: a name (the caller's station_list, CreateRoute's path, the path
\* attribute of a Route) is bound to the identity of a list, and an
\* operation in place changes the contents that every name bound to that
\* identity sees.  The variable station_list is the contents of the
\* caller's list.

\* The identity of the caller's station_list.
StationListId == 0

\* The heap with the list id holding contents.
Bind(objects, id, contents) ==
    [i \in DOMAIN objects \cup {id} |-> IF i = id THEN contents ELSE objects[i]]

\* The heap without the lists that no name in roots is bound to: a list
\* is freed with its last reference.
Collect(objects, roots) == [i \in DOMAIN objects \cap roots |-> objects[i]]

\* The identities of the lists the path attributes of routes are bound to.
PathIds(routes) == {routes[k].path_id : k \in 1..Len(routes)}

InitCreate ==
    /\ \E n \in 3..(MaxSize - 1) :
          /\ station_list = [k \in 1..n |-> k]
          /\ first_station \in 1..n
          /\ time_to = SetJourneyTimes(n)
          /\ pop_size \in 1..(MaxSize - n)
    /\ n_generations = 0
    /\ elite_size = 0
    /\ mutation_rate = 0
    /\ pc = "create_route"
    /\ population = <<>>
    /\ heap = [i \in {StationListId} |-> station_list]
    /\ create_path = NoObject
    /\ WorkingIdle
    /\ ConstructionIdle
    /\ MenuIdle
    /\ ApiIdle
    /\ ClockIdle
    /\ LaunchIdle

\* CreateInitialPopulation lines 48-49, the call of CreateRoute, and
\* CreateRoute line 27: path = station_list[:].
CreateRouteCopy ==
    /\ pc = "create_route"
    /\ Len(population) < pop_size
    /\ create_path' = Copy(StationListId, DOMAIN heap)
    /\ heap' = Bind(heap, create_path', heap[StationListId])
    /\ station_list' = heap'[StationListId]
    /\ pc' = "create_route_remove"
    /\ UNCHANGED <<first_station, time_to, n_generations, pop_size,
                   elite_size, mutation_rate, population, working,
                   construction, menu, api, clock, launch>>

\* CreateRoute line 31: path.remove(first_station), in place; a ValueError
\* when the list does not hold the station.
CreateRouteRemove ==
    /\ pc = "create_route_remove"
    /\ IF Contains(heap[create_path], first_station)
       THEN /\ heap' = [heap EXCEPT ![create_path] = Remove(@, first_station)]
            /\ pc' = "create_route_sample"
       ELSE /\ heap' = heap
            /\ pc' = "value_error"
    /\ station_list' = heap'[StationListId]
    /\ UNCHANGED <<first_station, time_to, n_generations, pop_size,
                   elite_size, mutation_rate, population, create_path,
                   working, construction, menu, api, clock, launch>>

\* CreateRoute line 32: path = random.sample(path, len(path)), a new list;
\* the list path was bound to has one reference less.
CreateRouteSample ==
    /\ pc = "create_route_sample"
    /\ \E sample \in Samples(heap[create_path]) :
          /\ create_path' = FreshId(DOMAIN heap)
          /\ heap' = Collect(Bind(heap, create_path', sample),
                             {StationListId, create_path'} \cup PathIds(population))
    /\ station_list' = heap'[StationListId]
    /\ pc' = "create_route_insert"
    /\ UNCHANGED <<first_station, time_to, n_generations, pop_size,
                   elite_size, mutation_rate, population, working,
                   construction, menu, api, clock, launch>>

\* CreateRoute line 33: path.insert(0, first_station), in place.
CreateRouteInsert ==
    /\ pc = "create_route_insert"
    /\ heap' = [heap EXCEPT ![create_path] = InsertAt(@, 0, first_station)]
    /\ station_list' = heap'[StationListId]
    /\ pc' = "create_route_return"
    /\ UNCHANGED <<first_station, time_to, n_generations, pop_size,
                   elite_size, mutation_rate, population, create_path,
                   working, construction, menu, api, clock, launch>>

\* CreateRoute lines 35-37 and CreateInitialPopulation line 49: the Route
\* on the list path is bound to is appended to population.
CreateRouteReturn ==
    /\ pc = "create_route_return"
    /\ population' = Append(population,
                            Object(Route(heap[create_path]),
                                   FreshId(RouteIds(children)), create_path))
    /\ create_path' = NoObject
    /\ pc' = "create_route"
    /\ UNCHANGED <<station_list, first_station, time_to, n_generations,
                   pop_size, elite_size, mutation_rate, heap, working,
                   construction, menu, api, clock, launch>>

\* CreateInitialPopulation line 51.
CreateInitialPopulationReturn ==
    /\ pc = "create_route"
    /\ Len(population) = pop_size
    /\ pc' = "population_created"
    /\ UNCHANGED <<params, population, working, construction, interface>>

NextCreate ==
    \/ CreateRouteCopy
    \/ CreateRouteRemove
    \/ CreateRouteSample
    \/ CreateRouteInsert
    \/ CreateRouteReturn
    \/ CreateInitialPopulationReturn

SpecCreate == InitCreate /\ [][NextCreate]_vars

----------------------------------------------------------------------------
\* GeneticAlgorithmMenu.  A line typed at a prompt is held by what int()
\* and float() make of it.  Here mutation_rate, and a number typed for it,
\* is an exact rational [num, den], and nan is Not-a-Number; second_value
\* is Unbound or the Number last assigned to it.

\* Bound of the model: the integers typed at a prompt are -1..MaxEntry, and
\* the random seed the menu starts with is in 0..MaxEntry.
MaxEntry == 2

\* lines 39-42
DefaultGenerations == 100
DefaultPopSize == 100
DefaultEliteSize == 10
DefaultMutationRate == Rat(1, 100)

\* float("nan")
NaN == Rat(0, 0)

\* x < y for floats: no comparison with nan is true
FloatLess(x, y) == x # NaN /\ y # NaN /\ x.num * y.den < y.num * x.den

\* The lines typed at a prompt for a number: an integer literal, a decimal
\* literal that is no integer, "nan", and a word that is no number.
Entries ==
    {[text |-> "integer", num |-> k, den |-> 1] : k \in (0 - 1)..MaxEntry}
    \cup {[text |-> "decimal", num |-> k, den |-> GridSize] :
             k \in (1..(GridSize - 1)) \cup {GridSize + 1}}
    \cup {[text |-> "nan", num |-> 0, den |-> 0],
          [text |-> "word", num |-> 0, den |-> 0]}

\* int(u_second_input): the integer, or a ValueError
IntOf(entry) ==
    IF entry.text = "integer"
    THEN [raised |-> FALSE, value |-> entry.num]
    ELSE [raised |-> TRUE, value |-> 0]

\* float(u_second_input): the float, nan included, or a ValueError
FloatOf(entry) ==
    IF entry.text \in {"integer", "decimal"}
    THEN [raised |-> FALSE, value |-> Rat(entry.num, entry.den)]
    ELSE IF entry.text = "nan"
    THEN [raised |-> FALSE, value |-> NaN]
    ELSE [raised |-> TRUE, value |-> NaN]

\* The tests that raise ValueError: lines 69, 82, 99-103, 119 and 130.
GenerationsRejected(value) == value <= 0
RoutesRejected(value, elites) == value < elites \/ (value = 1 /\ elites = 0)
ElitesRejected(value, routes) ==
    value < 0 \/ value >= routes \/ (value = 0 /\ routes = 1)
RateRejected(value) == FloatLess(value, Rat(0, 1)) \/ FloatLess(Rat(1, 1), value)
SeedRejected(value) == value < 0

\* The prompt each option of the menu leads to (lines 65, 76, 93, 114, 126).
Prompts == <<"ask_generations", "ask_routes", "ask_elites", "ask_rate", "ask_seed">>

\* What GeneticAlgorithmMenu does not touch.
menu_frame == <<station_list, first_station, time_to, population, working,
                construction, creation, api, clock, launch>>

InitMenu ==
    /\ n_generations = DefaultGenerations
    /\ pop_size = DefaultPopSize
    /\ elite_size = DefaultEliteSize
    /\ mutation_rate = DefaultMutationRate
    /\ random_seed \in 0..MaxEntry
    /\ second_value = Unbound
    /\ pc = "menu"
    /\ station_list = <<>>
    /\ first_station = 0
    /\ time_to = <<>>
    /\ population = <<>>
    /\ WorkingIdle
    /\ ConstructionIdle
    /\ CreationIdle
    /\ ApiIdle
    /\ ClockIdle
    /\ LaunchIdle

\* lines 60-65, 76, 93, 114, 126: an option 0..4 is typed and the prompt
\* for its parameter follows.
MenuSelect ==
    /\ pc = "menu"
    /\ \E option \in 0..4 : pc' = Prompts[option + 1]
    /\ UNCHANGED <<menu_frame, n_generations, pop_size, elite_size,
                   mutation_rate, random_seed, second_value>>

\* lines 138-140 and 155: option 5, the parameters are returned.
MenuAccept ==
    /\ pc = "menu"
    /\ pc' = "accepted"
    /\ UNCHANGED <<menu_frame, n_generations, pop_size, elite_size,
                   mutation_rate, random_seed, second_value>>

\* lines 146-149: q, None is returned.
MenuQuit ==
    /\ pc = "menu"
    /\ pc' = "quit"
    /\ UNCHANGED <<menu_frame, n_generations, pop_size, elite_size,
                   mutation_rate, random_seed, second_value>>

\* lines 142-144 and 150-152: another integer, or another line that is
\* no integer; the menu is shown again.
MenuInvalidChoice ==
    /\ pc = "menu"
    /\ pc' = "menu"
    /\ UNCHANGED <<menu_frame, n_generations, pop_size, elite_size,
                   mutation_rate, random_seed, second_value>>

\* lines 66-74
EnterGenerations ==
    /\ pc = "ask_generations"
    /\ \E entry \in Entries :
          LET parsed == IntOf(entry)
          IN  IF parsed.raised
              THEN UNCHANGED <<second_value, n_generations>>
              ELSE /\ second_value' = Number(parsed.value, 1)
                   /\ n_generations' = IF GenerationsRejected(parsed.value)
                                       THEN n_generations ELSE parsed.value
    /\ pc' = "menu"
    /\ UNCHANGED <<menu_frame, pop_size, elite_size, mutation_rate, random_seed>>

\* lines 77-91: the handler of line 85 reads second_value (line 86), which
\* is not bound when int() has raised and no prompt before has bound it;
\* the UnboundLocalError is no ValueError and leaves the function.
EnterRoutes ==
    /\ pc = "ask_routes"
    /\ \E entry \in Entries :
          LET parsed == IntOf(entry)
          IN  IF parsed.raised
              THEN /\ UNCHANGED <<second_value, pop_size>>
                   /\ pc' = IF second_value.bound THEN "menu"
                            ELSE "unbound_local_error"
              ELSE /\ second_value' = Number(parsed.value, 1)
                   /\ pop_size' = IF RoutesRejected(parsed.value, elite_size)
                                  THEN pop_size ELSE parsed.value
                   /\ pc' = "menu"
    /\ UNCHANGED <<menu_frame, n_generations, elite_size, mutation_rate,
                   random_seed>>

\* lines 94-112: the handler of line 105 reads second_value (line 106).
EnterElites ==
    /\ pc = "ask_elites"
    /\ \E entry \in Entries :
          LET parsed == IntOf(entry)
          IN  IF parsed.raised
              THEN /\ UNCHANGED <<second_value, elite_size>>
                   /\ pc' = IF second_value.bound THEN "menu"
                            ELSE "unbound_local_error"
              ELSE /\ second_value' = Number(parsed.value, 1)
                   /\ elite_size' = IF ElitesRejected(parsed.value, pop_size)
                                    THEN elite_size ELSE parsed.value
                   /\ pc' = "menu"
    /\ UNCHANGED <<menu_frame, n_generations, pop_size, mutation_rate,
                   random_seed>>

\* lines 115-124
EnterRate ==
    /\ pc = "ask_rate"
    /\ \E entry \in Entries :
          LET parsed == FloatOf(entry)
          IN  IF parsed.raised
              THEN UNCHANGED <<second_value, mutation_rate>>
              ELSE /\ second_value' = Number(parsed.value.num, parsed.value.den)
                   /\ mutation_rate' = IF RateRejected(parsed.value)
                                       THEN mutation_rate ELSE parsed.value
    /\ pc' = "menu"
    /\ UNCHANGED <<menu_frame, n_generations, pop_size, elite_size, random_seed>>

\* lines 127-136
EnterSeed ==
    /\ pc = "ask_seed"
    /\ \E entry \in Entries :
          LET parsed == IntOf(entry)
          IN  IF parsed.raised
              THEN UNCHANGED <<second_value, random_seed>>
              ELSE /\ second_value' = Number(parsed.value, 1)
                   /\ random_seed' = IF SeedRejected(parsed.value)
                                     THEN random_seed ELSE parsed.value
    /\ pc' = "menu"
    /\ UNCHANGED <<menu_frame, n_generations, pop_size, elite_size,
                   mutation_rate>>

NextMenu ==
    \/ MenuSelect
    \/ MenuAccept
    \/ MenuQuit
    \/ MenuInvalidChoice
    \/ EnterGenerations
    \/ EnterRoutes
    \/ EnterElites
    \/ EnterRate
    \/ EnterSeed

SpecMenu == InitMenu /\ [][NextMenu]_vars

----------------------------------------------------------------------------
\* ContactTfLAPI.  What requests.get gives is a connection error or a
\* response, and a response is a JSON document, held as a number, or text
\* that is no JSON; r.json() of a document is the list of that number.

\* Bound of the model: the JSON documents the API answers with are
\* 1..MaxBody.
MaxBody == 4

\* line 73 (and line 87): attempts are numbered from 1 and stop below 11
AttemptLimit == 11

AttemptsLeftInclusive(number) == number <= AttemptLimit

\* lines 73 and 87: attempt < 11
AttemptsLeft(number) == number < AttemptLimit

\* What a call of requests.get can give.
Responses ==
    {[kind |-> "json", body |-> b] : b \in 1..MaxBody}
    \cup {[kind |-> "undecodable", body |-> 0],
          [kind |-> "connection_error", body |-> 0]}

\* r.json(): the decoded document, or a JSONDecodeError
JsonOf(response) ==
    IF response.kind = "json"
    THEN [raised |-> FALSE, value |-> <<response.body>>]
    ELSE [raised |-> TRUE, value |-> None]

\* What ContactTfLAPI does not touch.
api_frame == <<params, population, working, construction, creation, menu,
               clock, launch>>

\* line 72 done: attempt = 1
InitApi ==
    /\ attempt = 1
    /\ tfl_api_data = None
    /\ responses = <<>>
    /\ pc = "api_request"
    /\ station_list = <<>>
    /\ first_station = 0
    /\ time_to = <<>>
    /\ n_generations = 0
    /\ pop_size = 0
    /\ elite_size = 0
    /\ mutation_rate = 0
    /\ population = <<>>
    /\ WorkingIdle
    /\ ConstructionIdle
    /\ CreationIdle
    /\ MenuIdle
    /\ ClockIdle
    /\ LaunchIdle

\* lines 73-79 and 93: the test of the while loop, then requests.get; a
\* ConnectionError returns None.  Were the test false, line 93 would read
\* tfl_api_data, which nothing has bound.
ApiRequest ==
    /\ pc = "api_request"
    /\ IF AttemptsLeft(attempt)
       THEN \E response \in Responses :
               /\ responses' = Append(responses, response)
               /\ pc' = IF response.kind = "connection_error"
                        THEN "api_returned"
                        ELSE "api_decode"
       ELSE /\ pc' = "unbound_local_error"
            /\ UNCHANGED responses
    /\ UNCHANGED <<api_frame, attempt, tfl_api_data>>

\* lines 81-91 and 93: r.json(); the decoded data leaves the loop and is
\* returned; a JSONDecodeError counts the attempt and returns None when no
\* attempt is left.
ApiDecode ==
    /\ pc = "api_decode"
    /\ LET decoded == JsonOf(Last(responses))
       IN  IF ~decoded.raised
           THEN /\ tfl_api_data' = decoded.value
                /\ pc' = "api_returned"
                /\ UNCHANGED attempt
           ELSE /\ attempt' = attempt + 1
                /\ pc' = IF AttemptsLeft(attempt + 1)
                         THEN "api_request"
                         ELSE "api_returned"
                /\ UNCHANGED tfl_api_data
    /\ UNCHANGED <<api_frame, responses>>

NextApi ==
    \/ ApiRequest
    \/ ApiDecode

SpecApi == InitApi /\ [][NextApi]_vars

----------------------------------------------------------------------------
\* TimeAndDateMenu.  A line typed for the time, and the time held, is the
\* list of its characters.  A date is the list of one number, the days it
\* lies after today (before today when the number is negative), and a line
\* typed for a date is held by what the checks of lines 268-280 make of it.

\* Bound of the model: a time typed is hh:mm followed by at most MaxTail
\* more characters.
MaxTail == 1

\* line 266: datetime.timedelta(days=365)
YearDays == 365

DigitChars == <<"0", "1", "2", "3", "4", "5", "6", "7", "8", "9">>

\* \d (over ASCII)
IsDigit(c) == \E k \in 1..10 : DigitChars[k] = c

DigitValue(c) == (CHOOSE k \in 1..10 : DigitChars[k] = c) - 1

\* "{:02d}".format(k), the way a user writes an hour or a minute k < 100
TwoDigits(k) == <<DigitChars[(k \div 10) + 1], DigitChars[(k % 10) + 1]>>

\* line 252: re.compile("\d{2}:\d{2}").match(text), a match at the start
\* of text that need not reach its end
MatchesTimeFormat(text) ==
    /\ Len(text) >= 5
    /\ IsDigit(text[1]) /\ IsDigit(text[2])
    /\ text[3] = ":"
    /\ IsDigit(text[4]) /\ IsDigit(text[5])

\* text.split(sep)
RECURSIVE Split(_, _)
Split(text, sep) ==
    IF \A k \in 1..Len(text) : text[k] # sep
    THEN <<text>>
    ELSE LET k == CHOOSE i \in 1..Len(text) :
                      text[i] = sep /\ \A j \in 1..(i - 1) : text[j] # sep
         IN  <<SubSeq(text, 1, k - 1)>>
                 \o Split(SubSeq(text, k + 1, Len(text)), sep)

\* text.strip(), as int() does before it reads the digits
RECURSIVE Strip(_)
Strip(text) ==
    IF text = <<>> THEN text
    ELSE IF Head(text) = " " THEN Strip(Tail(text))
    ELSE IF Last(text) = " " THEN Strip(SubSeq(text, 1, Len(text) - 1))
    ELSE text

RECURSIVE DecimalValue(_)
DecimalValue(digits) ==
    IF digits = <<>> THEN 0
    ELSE DecimalValue(SubSeq(digits, 1, Len(digits) - 1)) * 10
             + DigitValue(Last(digits))

\* int(text) for a text of digits, spaces, colons and letters: the number,
\* or a ValueError
IntOfText(text) ==
    LET digits == Strip(text)
    IN  IF digits # <<>> /\ \A k \in 1..Len(digits) : IsDigit(digits[k])
        THEN [raised |-> FALSE, value |-> DecimalValue(digits)]
        ELSE [raised |-> TRUE, value |-> 0]

\* line 255: int(hh) < 24 and int(mm) <= 60
TimeInRange(hh, mm) == hh < 24 /\ mm <= 60

\* text.replace(c, '')
ReplaceWithNothing(text, c) == SelectSeq(text, LAMBDA x : x # c)

\* lines 252-259: the time held after the line text is typed for the time.
\* The unpacking of line 253 raises ValueError unless split gives two
\* parts, and so does int(); the handler of line 297 shows the menu again.
\* int(mm) is only evaluated when int(hh) < 24.
TimeAfter(held, text) ==
    IF ~MatchesTimeFormat(text) THEN held
    ELSE LET parts == Split(text, ":")
         IN  IF Len(parts) # 2 THEN held
             ELSE LET hh == IntOfText(parts[1])
                      mm == IntOfText(parts[2])
                  IN  IF hh.raised THEN held
                      ELSE IF ~(hh.value < 24) THEN held
                      ELSE IF mm.raised THEN held
                      ELSE IF TimeInRange(hh.value, mm.value)
                      THEN ReplaceWithNothing(text, ":")
                      ELSE held

\* line 275: u_date < date_today or u_date > date_next_year, where
\* date_today is now, to the microsecond, and u_date is midnight of the day
\* typed: today's date is only accepted when now is midnight itself.
DateRejected(days, now_is_midnight) ==
    days < 0 \/ (days = 0 /\ ~now_is_midnight) \/ days > YearDays

\* line 231
DefaultTime == <<"1", "2", "0", "0">>

\* The characters that follow hh:mm in a line typed for the time.
TailChars == {" ", "x", ":"}

\* The lines typed for the time: hours and minutes about the limits, with
\* and without more characters, and lines that are not hh:mm.
TimeEntries ==
    {TwoDigits(h) \o <<":">> \o TwoDigits(m) \o more :
        h \in {0, 23, 24}, m \in {0, 59, 60, 61},
        more \in UNION {[1..k -> TailChars] : k \in 0..MaxTail}}
    \cup {<<"1", "2", "3", "0">>, <<"1", ":", "3", "0">>, <<"q">>, <<>>}

\* The lines typed for the date: a date in YYYY-MM-DD format so many days
\* after today, a line in that format that is no date, and a line that is
\* not in that format.
DateEntries ==
    {[text |-> "date", days |-> k] :
        k \in {0 - 1, 0, 1, YearDays, YearDays + 1}}
    \cup {[text |-> "no_date", days |-> 0], [text |-> "word", days |-> 0]}

\* What TimeAndDateMenu does not touch.
clock_frame == <<params, population, working, construction, creation, menu,
                 api, launch>>

\* lines 231-232: DetermineDate() is the next Wednesday, today included.
InitClock ==
    /\ time = DefaultTime
    /\ \E days \in 0..6 : date = <<days>>
    /\ pc = "time_menu"
    /\ station_list = <<>>
    /\ first_station = 0
    /\ time_to = <<>>
    /\ n_generations = 0
    /\ pop_size = 0
    /\ elite_size = 0
    /\ mutation_rate = 0
    /\ population = <<>>
    /\ WorkingIdle
    /\ ConstructionIdle
    /\ CreationIdle
    /\ MenuIdle
    /\ ApiIdle
    /\ LaunchIdle

\* lines 244-250 and 262-263: option 0 or 1 is typed and its prompt follows.
ClockSelect ==
    /\ pc = "time_menu"
    /\ pc' \in {"ask_time", "ask_date"}
    /\ UNCHANGED <<clock_frame, time, date>>

\* lines 290-291 and 305: option 2, time and date are returned.
ClockAccept ==
    /\ pc = "time_menu"
    /\ pc' = "time_accepted"
    /\ UNCHANGED <<clock_frame, time, date>>

\* lines 297-300: q, (None, None) is returned.
ClockQuit ==
    /\ pc = "time_menu"
    /\ pc' = "time_quit"
    /\ time' = None
    /\ date' = None
    /\ UNCHANGED clock_frame

\* lines 293-295 and 301-303: another line; the menu is shown again.
ClockInvalidChoice ==
    /\ pc = "time_menu"
    /\ pc' = "time_menu"
    /\ UNCHANGED <<clock_frame, time, date>>

\* lines 250-261 and 297-303
EnterTime ==
    /\ pc = "ask_time"
    /\ \E text \in TimeEntries : time' = TimeAfter(time, text)
    /\ pc' = "time_menu"
    /\ UNCHANGED <<clock_frame, date>>

\* lines 263-288
EnterDate ==
    /\ pc = "ask_date"
    /\ \E entry \in DateEntries, now_is_midnight \in BOOLEAN :
          date' = IF entry.text = "date"
                     /\ ~DateRejected(entry.days, now_is_midnight)
                  THEN <<entry.days>> ELSE date
    /\ pc' = "time_menu"
    /\ UNCHANGED <<clock_frame, time>>

NextClock ==
    \/ ClockSelect
    \/ ClockAccept
    \/ ClockQuit
    \/ ClockInvalidChoice
    \/ EnterTime
    \/ EnterDate

SpecClock == InitClock /\ [][NextClock]_vars

----------------------------------------------------------------------------
\* RunGenAlg up to its call of GeneticAlgorithm.  A station list file is
\* held as the number of its lines and a station matrix file as the number
\* of its rows; the Station made from line or row k is k.  The journey
\* planner answers JourneyTime, and a station matrix file holds the matrix
\* CreateStationMatrix writes for its stations.  A menu is held by what it
\* returns.

\* Bound of the model: a station list file has at most MaxLines lines and a
\* station matrix file at most MaxLines rows.
MaxLines == 4

\* file_manip.py line 83: len(data) < 3
MinStations == 3

TooFewStations(lines) == lines < MinStations

\* A station matrix file was written at most MaxAge days ago.
MaxAge == 3

\* The times and dates TimeAndDateMenu returns.
Stamps ==
    {[time |-> TimeAfter(DefaultTime, text), date |-> <<days>>] :
        text \in TimeEntries,
        days \in (0..6) \cup {entry.days : entry \in
                    {e \in DateEntries :
                        e.text = "date"
                        /\ \E now_is_midnight \in BOOLEAN :
                               ~DateRejected(e.days, now_is_midnight)}}}

\* The names of the station matrix files, each the list of the words that
\* line 267, filename.replace('/', '_').split('_'), makes of it: the name
\* CreateStationMatrix gave a file it wrote up to MaxAge days ago, line
\* 222, "./station_matrices/" + date + "_" + time + "_" + ..., whose date
\* by now lies so many days earlier, and a name of one word in that
\* directory.
MatrixFileWords ==
    {<<".", "station", "matrices", <<stamp.date[1] - age>>, stamp.time,
       "stationMatrix.csv">> : stamp \in Stamps, age \in 0..MaxAge}
    \cup {<<".", "station", "matrices", "matrix.csv">>}

\* StationMatrixTimeAndDate line 268, time, date = words[4], words[3]:
\* the time and the date, or an IndexError
StationMatrixTimeAndDate(words) ==
    IF Len(words) < 5
    THEN [raised |-> TRUE, time |-> None, date |-> None]
    ELSE [raised |-> FALSE, time |-> At(words, 4), date |-> At(words, 3)]

\* Bound of the model: at 'Please select station: ' at most MaxTyped lines
\* are typed for a name.
MaxTyped == 2

\* What ContactTfLAPI returns for the search of a name: None, or a
\* document whose 'total' is the length of its 'matches'; a match is held
\* by whether it has the key 'icsId'.
StationAnswers ==
    {[answered |-> FALSE, matches |-> <<>>]}
    \cup {[answered |-> TRUE, matches |-> ids] :
             ids \in UNION {[1..n -> BOOLEAN] : n \in 0..2}}

\* The lines typed at 'Please select station: ' for one name.
TypedLines == UNION {[1..n -> Entries] : n \in 1..MaxTyped}

RECURSIVE SelectStation(_, _)
\* CreateStationList lines 111-129, the lines typed being typed: the
\* index chosen; or the ValueError of int(u_input), which no handler
\* catches; or the prompt being shown again after the last line.  An index
\* out of range (IndexError), a match without icsId (KeyError) and a
\* negative index (line 121) show the prompt again.
SelectStation(matches, typed) ==
    IF typed = <<>> THEN [outcome |-> "asking", index |-> 0]
    ELSE LET u_input == IntOf(Head(typed))
             n == Len(matches)
         IN  IF u_input.raised THEN [outcome |-> "value_error", index |-> 0]
             ELSE IF u_input.value >= n \/ u_input.value < 0 - n
             THEN SelectStation(matches, Tail(typed))
             ELSE IF ~matches[(u_input.value % n) + 1]
             THEN SelectStation(matches, Tail(typed))
             ELSE IF u_input.value < 0
             THEN SelectStation(matches, Tail(typed))
             ELSE [outcome |-> "chosen", index |-> u_input.value]

\* CreateStationList lines 103-141 for one line of the file: "station"
\* when a Station is appended, "none" when None is returned (no data from
\* the API, line 105, or no match, line 138), or the exception that leaves
\* the function: the ValueError of line 119 and the KeyError of line 134,
\* where only IndexError is caught.
StationLine(station_data, typed) ==
    IF ~station_data.answered THEN "none"
    ELSE IF Len(station_data.matches) > 1
    THEN (LET selected == SelectStation(station_data.matches, typed)
          IN  IF selected.outcome = "chosen" THEN "station"
              ELSE selected.outcome)
    ELSE IF station_data.matches = <<>> THEN "none"
    ELSE IF station_data.matches[1] THEN "station"
    ELSE "key_error"

\* CreateStationMatrix lines 165-192: the row of the station at index i,
\* zeros up to the diagonal and the journey times after it
HalfRow(i, n) ==
    [t \in 1..n |-> IF t <= i + 1 THEN 0 ELSE JourneyTime(i + 1, t)]

\* CreateStationMatrix lines 200-205: the last row, and the matrix added
\* to its transpose
AddTranspose(rows) ==
    LET matrix == Append(rows, [t \in 1..(Len(rows) + 1) |-> 0])
    IN  [s \in 1..Len(matrix) |->
            [t \in 1..Len(matrix) |-> matrix[s][t] + matrix[t][s]]]

\* SetJourneyTimes: each Station's time_to, from its row of the matrix
StationTimes(stations, matrix) ==
    [s \in 1..Len(stations) |->
        [t \in 1..Len(stations) |->
            matrix[IndexOf(stations, s) + 1][IndexOf(stations, t) + 1]]]

\* What RunGenAlg and its callees do not touch.
launch_frame == <<population, working, construction, creation, api,
                  second_value>>

InitLaunch ==
    /\ station_matrix_file \in {NoFile} \cup (0..MaxLines)
    /\ station_list_file = NoFile
    /\ journey_time_matrix = None
    /\ pc = "run_gen_alg"
    /\ station_list = None
    /\ first_station = 0
    /\ time_to = <<>>
    /\ n_generations = 0
    /\ pop_size = 0
    /\ elite_size = 0
    /\ mutation_rate = Rat(0, 1)
    /\ population = <<>>
    /\ WorkingIdle
    /\ ConstructionIdle
    /\ CreationIdle
    /\ MenuIdle
    /\ ApiIdle
    /\ ClockIdle

\* RunGenAlg lines 368-371 with CreateStationListMenu lines 321-350: no
\* station list file is found, or the user quits, or a file is chosen.
LaunchStationListMenu ==
    /\ pc = "run_gen_alg"
    /\ station_matrix_file = NoFile
    /\ \E found \in {NoFile} \cup (0..MaxLines), quits \in BOOLEAN :
          IF found = NoFile \/ quits
          THEN /\ pc' = "returned_false"
               /\ UNCHANGED station_list_file
          ELSE /\ pc' = "create_station_list"
               /\ station_list_file' = found
    /\ UNCHANGED <<launch_frame, params, random_seed, clock,
                   station_matrix_file, journey_time_matrix>>

\* CreateStationList lines 79-90: the file is read and refused when it has
\* fewer than 3 lines.
CreateStationListOpen ==
    /\ pc = "create_station_list"
    /\ IF TooFewStations(station_list_file)
       THEN /\ pc' = "returned_false"
            /\ UNCHANGED station_list
       ELSE /\ pc' = "station_lines"
            /\ station_list' = <<>>
    /\ UNCHANGED <<launch_frame, first_station, time_to, n_generations,
                   pop_size, elite_size, mutation_rate, random_seed, clock,
                   launch>>

\* CreateStationList lines 95-141 and 143: one line of the file, with the
\* lines typed until the choice among several matches ends.  The Station
\* is appended, or None is returned and RunGenAlg returns False, or an
\* exception leaves CreateStationList and RunGenAlg.
CreateStationListLine ==
    /\ pc = "station_lines"
    /\ \E station_data \in StationAnswers, typed \in TypedLines :
          LET line == StationLine(station_data, typed)
          IN  /\ line # "asking"
              /\ IF line = "station"
                 THEN /\ station_list' =
                            Append(station_list, Len(station_list) + 1)
                      /\ pc' = IF Len(station_list) + 1 = station_list_file
                               THEN "time_and_date"
                               ELSE "station_lines"
                 ELSE IF line = "none"
                 THEN /\ station_list' = None
                      /\ pc' = "returned_false"
                 ELSE /\ pc' = line
                      /\ UNCHANGED station_list
    /\ UNCHANGED <<launch_frame, first_station, time_to, n_generations,
                   pop_size, elite_size, mutation_rate, random_seed, clock,
                   launch>>

\* RunGenAlg lines 372-374 and CreateStationMatrix line 159
LaunchTimeAndDate ==
    /\ pc = "time_and_date"
    /\ \/ /\ pc' = "returned_false"
          /\ UNCHANGED <<time, date, journey_time_matrix>>
       \/ /\ \E stamp \in Stamps :
                /\ time' = stamp.time
                /\ date' = stamp.date
          /\ journey_time_matrix' = <<>>
          /\ pc' = "create_station_matrix"
    /\ UNCHANGED <<launch_frame, params, random_seed, station_matrix_file,
                   station_list_file>>

\* CreateStationMatrix lines 163-196: the row of one start station; the
\* call returns None when the API gives no data for a journey.
CreateStationMatrixRow ==
    /\ pc = "create_station_matrix"
    /\ Len(journey_time_matrix) < Len(station_list) - 1
    /\ \E answered \in BOOLEAN :
          IF answered
          THEN /\ journey_time_matrix' =
                      Append(journey_time_matrix,
                             HalfRow(Len(journey_time_matrix),
                                     Len(station_list)))
               /\ pc' = "create_station_matrix"
          ELSE /\ pc' = "returned_false"
               /\ UNCHANGED journey_time_matrix
    /\ UNCHANGED <<launch_frame, params, random_seed, clock,
                   station_matrix_file, station_list_file>>

\* CreateStationMatrix lines 198-226
CreateStationMatrixReturn ==
    /\ pc = "create_station_matrix"
    /\ Len(journey_time_matrix) = Len(station_list) - 1
    /\ journey_time_matrix' = AddTranspose(journey_time_matrix)
    /\ time_to' = StationTimes(station_list, AddTranspose(journey_time_matrix))
    /\ pc' = "start_station"
    /\ UNCHANGED <<launch_frame, station_list, first_station, n_generations,
                   pop_size, elite_size, mutation_rate, random_seed, clock,
                   station_matrix_file, station_list_file>>

\* RunGenAlg lines 381-385 with ReadStationMatrix and
\* StationMatrixTimeAndDate: a Station for every row of the file, whatever
\* their number, and the time and the date its name holds, whatever they
\* are; the IndexError of a name of fewer words leaves RunGenAlg.
LaunchReadStationMatrix ==
    /\ pc = "run_gen_alg"
    /\ station_matrix_file # NoFile
    /\ station_list' = [k \in 1..station_matrix_file |-> k]
    /\ time_to' = StationTimes([k \in 1..station_matrix_file |-> k],
                               SetJourneyTimes(station_matrix_file))
    /\ \E words \in MatrixFileWords :
          LET stamp == StationMatrixTimeAndDate(words)
          IN  IF stamp.raised
              THEN /\ pc' = "index_error"
                   /\ UNCHANGED <<time, date>>
              ELSE /\ time' = stamp.time
                   /\ date' = stamp.date
                   /\ pc' = "start_station"
    /\ UNCHANGED <<launch_frame, first_station, n_generations, pop_size,
                   elite_size, mutation_rate, random_seed, launch>>

\* RunGenAlg lines 388-390 with StartStationMenu: the Station at an index
\* of the list, or None when the user quits.
LaunchStartStation ==
    /\ pc = "start_station"
    /\ \/ /\ pc' = "returned_false"
          /\ UNCHANGED first_station
       \/ /\ \E value \in 0..(Len(station_list) - 1) :
                first_station' = At(station_list, value)
          /\ pc' = "genetic_algorithm_menu"
    /\ UNCHANGED <<launch_frame, station_list, time_to, n_generations,
                   pop_size, elite_size, mutation_rate, random_seed, clock,
                   launch>>

\* RunGenAlg lines 393-398 with GeneticAlgorithmMenu, here accepted as it
\* starts or left with q: GeneticAlgorithm is called.
LaunchGeneticAlgorithm ==
    /\ pc = "genetic_algorithm_menu"
    /\ \/ /\ pc' = "returned_false"
          /\ UNCHANGED <<n_generations, pop_size, elite_size, mutation_rate,
                         random_seed>>
       \/ /\ n_generations' = DefaultGenerations
          /\ pop_size' = DefaultPopSize
          /\ elite_size' = DefaultEliteSize
          /\ mutation_rate' = DefaultMutationRate
          /\ random_seed' \in 0..MaxEntry
          /\ pc' = "genetic_algorithm"
    /\ UNCHANGED <<launch_frame, station_list, first_station, time_to, clock,
                   launch>>

NextLaunch ==
    \/ LaunchStationListMenu
    \/ CreateStationListOpen
    \/ CreateStationListLine
    \/ LaunchTimeAndDate
    \/ CreateStationMatrixRow
    \/ CreateStationMatrixReturn
    \/ LaunchReadStationMatrix
    \/ LaunchStartStation
    \/ LaunchGeneticAlgorithm

SpecLaunch == InitLaunch /\ [][NextLaunch]_vars

----------------------------------------------------------------------------
\* Properties.

\* A breeding step or a mutation has produced a route in this generation.
BredAndMutated ==
    /\ pc = "mutate"
    /\ child = Len(children)
    /\ elite_size < pop_size
    /\ mutate_path # None

\* C1: in every generation, every candidate (of the population, of the
\* list of children being bred and mutated, of the dataframes) has the
\* start station at index 0 of its path.
C1_StartStationFirst ==
    \A route \in AllRoutes :
        Len(route.path) >= 1 /\ At(route.path, 0) = first_station

\* C1 witness: a generation bred and mutated from a start station that is
\* not the first station of the list.
C1_Witness ==
    /\ BredAndMutated
    /\ first_station # At(station_list, 0)
    /\ C1_StartStationFirst

\* path holds every station of station_list exactly once and nothing else
IsPermutation(path) ==
    /\ Len(path) = Len(station_list)
    /\ \A s \in 1..Len(station_list) :
          Cardinality({k \in 1..Len(path) : path[k] = station_list[s]}) = 1

\* C2: in every generation, every candidate's path is a permutation of
\* the station list: same length, every station exactly once.
C2_PathIsPermutation == \A route \in AllRoutes : IsPermutation(route.path)

\* C2 witness: a child bred by crossover from two parents with different
\* paths, after a mutation, and every path is a permutation.
C2_Witness ==
    /\ BredAndMutated
    /\ \E a, b \in RowRoutes(parents) : a.path # b.path
    /\ C2_PathIsPermutation

RECURSIVE ManualDuration(_)
\* the sum of time_to over the consecutive pairs of path, from its end
ManualDuration(path) ==
    IF Len(path) <= 1 THEN 0
    ELSE ManualDuration(SubSeq(path, 1, Len(path) - 1))
         + time_to[path[Len(path) - 1]][path[Len(path)]]

\* C3: the time_taken of every Route object is the sum of time_to over
\* the consecutive pairs of its path.
C3_TimeTakenIsFresh ==
    \A route \in AllRoutes : route.time_taken = ManualDuration(route.path)

\* C3 witness: after breeding and mutation, the list of children holds
\* routes of different durations, each equal to the sum over its path.
C3_Witness ==
    /\ BredAndMutated
    /\ \E a, b \in RoutesOf(children) : a.time_taken # b.time_taken
    /\ C3_TimeTakenIsFresh

\* elements of list that are not in segment, in the order of list
RECURSIVE Without(_, _)
Without(list, segment) ==
    IF list = <<>> THEN <<>>
    ELSE IF Contains(segment, Head(list)) THEN Without(Tail(list), segment)
    ELSE <<Head(list)>> \o Without(Tail(list), segment)

\* child is the recombination of mother_path and father_path at lo < hi
IsRecombination(child_path, mother_path, father_path, lo, hi) ==
    LET n == Len(mother_path)
        segment == [k \in 1..(hi - lo) |-> father_path[lo + k]]
        rest == Without(mother_path, segment)
        outside == [k \in 1..(n - (hi - lo)) |->
                       IF k <= lo THEN child_path[k] ELSE child_path[k + hi - lo]]
    IN  /\ Len(child_path) = n
        /\ \A i \in lo..(hi - 1) : At(child_path, i) = At(father_path, i)
        /\ outside = rest

\* The last mating Procreate has completed, while it has not returned.
MatingDone == pc = "procreate" /\ mating >= 1
LastMother == parents[At(mother, mating - 1) + 1].Route.path
LastFather == parents[At(father, mating - 1) + 1].Route.path
LastChild == Last(children).path

\* C4: the child of a mating with cut indices lo < hi in [1, n-1] has
\* length n, holds the father's stations at the indices lo..hi-1 and, at
\* the other indices, the mother's stations that are not in father[lo:hi]
\* in the mother's order; the docstring's example gives [A,C,B,E,D,F].
C4_Recombination ==
    MatingDone =>
        LET lo == Min(genes[1], genes[2])
            hi == Max(genes[1], genes[2])
        IN  /\ 1 <= lo /\ lo < hi /\ hi <= Len(LastMother) - 1
            /\ IsRecombination(LastChild, LastMother, LastFather, lo, hi)
            /\ (LastMother = DocMother /\ LastFather = DocFather
                    /\ lo = 2 /\ hi = 5)
                 => LastChild = <<1, 3, 2, 5, 4, 6>>

\* C4 witness: the docstring's mating with the cuts 2 and 5 is done.
C4_Witness ==
    /\ MatingDone
    /\ LastMother = DocMother
    /\ LastFather = DocFather
    /\ genes = <<2, 5>>
    /\ LastChild = <<1, 3, 2, 5, 4, 6>>

\* A step in which Mutate has decided to mutate children[child] and puts
\* the replacement in the list.
MutationCompletes ==
    /\ pc \in {"mutate", "reroll_swap"}
    /\ pc' = "mutate"
    /\ child' = child + 1
    /\ pc = "mutate" => mutate_roll' <= mutation_rate

\* C5 as a property of one step: the replacement's path is the original
\* path with the stations at two different indices i, j in [1, n-1]
\* exchanged and every other index, index 0 included, as it was; [A,B,C,D]
\* with the indices (1,2) gives [A,C,B,D].
MutationSwapsTwo ==
    MutationCompletes =>
        LET original == IF pc = "mutate" THEN At(children, child).path
                        ELSE mutate_path
            replacement == At(children', child).path
            i == genes'[1]
            j == genes'[2]
            n == Len(original)
        IN  /\ i # j
            /\ i \in 1..(n - 1) /\ j \in 1..(n - 1)
            /\ Len(replacement) = n
            /\ At(replacement, i) = At(original, j)
            /\ At(replacement, j) = At(original, i)
            /\ \A k \in 0..(n - 1) : k \notin {i, j} =>
                                        At(replacement, k) = At(original, k)
            /\ (original = <<1, 2, 3, 4>> /\ i = 1 /\ j = 2)
                  => replacement = <<1, 3, 2, 4>>

\* C5: every step in which Mutate mutates a candidate exchanges exactly
\* two distinct positions in [1, n-1] of its path and changes no other.
C5_SwapMutation == [][MutationSwapsTwo]_vars

\* C5 witness: Mutate has mutated a candidate with the indices (1,2) and
\* the replacement is [A,C,B,D].
C5_Witness ==
    /\ pc = "mutate"
    /\ child >= 1
    /\ mutate_roll # NoDraw
    /\ mutate_roll <= mutation_rate
    /\ genes = <<1, 2>>
    /\ At(children, child - 1).path = <<1, 3, 2, 4>>
    /\ mutate_path = <<1, 3, 2, 4>>

\* row (0-based) is the first row whose CDF is at least the draw
FirstRowAtLeast(row, pick) ==
    /\ row \in 0..(Len(parents) - 1)
    /\ ~DoubleLess[At(parents, row).CDF, DrawValue(pick)]
    /\ \A r \in 0..(row - 1) :
          DoubleLess[At(parents, r).CDF, DrawValue(pick)]

\* SelectParents has drawn for a pair (and may be redrawing the father).
PairDrawn == pc \in {"select_parents", "reroll_father"} /\ pick_mother # NoDraw

\* C7: the mother of a pair is the first row, in ranked order, whose CDF
\* is >= the mother's draw, and the father, first drawn or redrawn, the
\* first row whose CDF is >= the father's latest draw.
C7_FirstRowRule ==
    PairDrawn =>
        /\ mother # <<>> /\ father # <<>>
        /\ FirstRowAtLeast(Last(mother), pick_mother)
        /\ FirstRowAtLeast(Last(father), pick_father)

\* C7 witness: a pair is complete whose mother's draw equals the CDF of
\* the row selected (the comparison is inclusive) and whose father is
\* another row.
C7_Witness ==
    /\ pc = "select_parents"
    /\ pick_mother # NoDraw
    /\ DrawValue(pick_mother) = At(parents, Last(mother)).CDF
    /\ Last(father) # Last(mother)
    /\ C7_FirstRowRule

\* C8: the mother and the father of every pair (mother[i], father[i])
\* SelectParents has returned are different rows of the dataframe, that
\* is different Route objects.
C8_ParentsDistinct ==
    pc \in {"procreate", "reroll_gene"} =>
        \A i \in 0..(Min(Len(mother), Len(father)) - 1) :
            At(mother, i) # At(father, i)

\* C9: SelectParents returns pop_size - elite_size mothers and as many
\* fathers; Procreate returns the elite_size first rows followed by
\* pop_size - elite_size children; Mutate keeps the length of the list
\* and the slots it has not reached; the population of every generation
\* holds pop_size candidates.
C9_Sizes ==
    /\ pc \in {"procreate", "reroll_gene"} =>
          /\ Len(mother) = pop_size - elite_size
          /\ Len(father) = pop_size - elite_size
          /\ Len(children) = elite_size + mating
    /\ pc = "mutate" =>
          /\ Len(children) = pop_size
          /\ \A k \in child..(elite_size - 1) :
                At(children, k) = At(parents, k).Route
    /\ pc # "create_initial_population" => Len(population) = pop_size
    /\ pc = "done" => Len(final_gen_df) = pop_size

\* routes is in ascending order of time_taken
Ascending(routes) ==
    \A a, b \in 1..Len(routes) : a < b => routes[a].time_taken <= routes[b].time_taken

\* d is the least time_taken of routes
IsMinimum(d, routes) ==
    /\ \E k \in 1..Len(routes) : routes[k].time_taken = d
    /\ \A k \in 1..Len(routes) : d <= routes[k].time_taken

\* C10: from generation 0 on the population is in ascending order of
\* time_taken, so is what SetParentsFitness was handed, and the entry of
\* best_route_gen for generation g is the least time_taken of generation g
\* (the population is generation gen's until the next one replaces it).
C10_RankedAndBest ==
    pc # "create_initial_population" =>
        /\ Ascending(population)
        /\ \A a, b \in 1..Len(parents) :
              a < b => parents[a].Route.time_taken <= parents[b].Route.time_taken
        /\ Len(best_route_gen) = gen + 1
        /\ IsMinimum(At(best_route_gen, gen), population)

\* C10 witness: generation 1 is in place, its routes have different
\* durations, and its best duration differs from generation 0's.
C10_Witness ==
    /\ pc = "generation"
    /\ gen = 1
    /\ At(population, 0).time_taken < Last(population).time_taken
    /\ At(best_route_gen, 0) # At(best_route_gen, 1)
    /\ C10_RankedAndBest

\* entry is the mean and the squared standard deviation of the durations
\* of routes: mean * n = sum(x), and std^2 * n^2 = n * sum(x^2) - sum(x)^2
IsMeanSigma(entry, routes) ==
    LET n == Len(routes)
        total == SumOf([k \in 1..n |-> routes[k].time_taken])
        squares == SumOf([k \in 1..n |-> routes[k].time_taken * routes[k].time_taken])
    IN  /\ entry.mean.den > 0 /\ entry.std_squared.den > 0
        /\ entry.mean.num * n = total * entry.mean.den
        /\ entry.std_squared.num * n * n
              = (n * squares - total * total) * entry.std_squared.den

\* The histories have one entry per generation so far, the latest one
\* recorded for the population in place; no more than n_generations
\* evolution steps are completed, and exactly that many when the run returns.
HistoryShape ==
    pc # "create_initial_population" =>
        /\ gen \in 0..n_generations
        /\ Len(best_route_gen) = gen + 1
        /\ Len(mean_sigma_gen) = gen + 1
        /\ IsMinimum(At(best_route_gen, gen), population)
        /\ IsMeanSigma(At(mean_sigma_gen, gen), population)
        /\ pc = "done" =>
              /\ gen = n_generations
              /\ Len(best_route_gen) = n_generations + 1
              /\ Len(mean_sigma_gen) = n_generations + 1

\* A step completes an evolution step exactly when it adds one entry to
\* each history, at its end; any other step after generation 0 is recorded
\* leaves both histories as they are.
HistoryGrows ==
    /\ gen' \in {gen, gen + 1}
    /\ gen' = gen + 1 <=> (pc = "mutate" /\ pc' = "generation")
    /\ gen' = gen + 1 =>
          /\ SubSeq(best_route_gen', 1, gen + 1) = best_route_gen
          /\ SubSeq(mean_sigma_gen', 1, gen + 1) = mean_sigma_gen
    /\ (gen' = gen /\ pc # "create_initial_population") =>
          /\ best_route_gen' = best_route_gen
          /\ mean_sigma_gen' = mean_sigma_gen

\* C11: a run with n_generations = N completes exactly N evolution steps
\* and returns a best-duration history and a mean/stddev history of N+1
\* entries each; entry 0 is recorded for the initial population before any
\* evolution step, entry g for the population after the g-th step, and no
\* entry changes once recorded.
C11_Histories == []HistoryShape /\ [][HistoryGrows]_vars

\* C11 witness: a run of at least one generation has returned, with one
\* entry more than generations in each history, and the entries of
\* generation 0 and of the last generation differ.
C11_Witness ==
    /\ pc = "done"
    /\ n_generations >= 1
    /\ Len(best_route_gen) = n_generations + 1
    /\ Len(mean_sigma_gen) = n_generations + 1
    /\ At(best_route_gen, 0) # Last(best_route_gen)
    /\ At(mean_sigma_gen, 0) # Last(mean_sigma_gen)
    /\ Last(mean_sigma_gen).std_squared.num > 0

\* Before a slot of the working set is reached by Mutate it holds, for the
\* first elite_size slots, the candidate of the same rank of the previous
\* generation, the same object; a slot Mutate has passed with the decision
\* 'no' still does (between two iterations of Mutate's loop: within one,
\* the list is one candidate short).
ElitesInFront ==
    pc \in {"select_parents", "reroll_father", "procreate", "reroll_gene",
            "mutate"} =>
        /\ Len(mutate_hits) <= pop_size
        /\ \A k \in 0..(elite_size - 1) :
              (k >= Len(mutate_hits) \/ ~At(mutate_hits, k)) =>
                  /\ k < Len(children)
                  /\ At(children, k) = At(population, k)
                  /\ At(children, k).id = At(population, k).id

\* The step that ends an evolution step puts every elite whose mutation
\* decision was 'no' in the next generation, the same object with the same
\* path and duration.
UnmutatedElitesSurvive ==
    (pc = "mutate" /\ pc' = "generation") =>
        \A k \in 0..(elite_size - 1) :
            ~At(mutate_hits, k) =>
                \E j \in 0..(pop_size - 1) :
                    /\ At(population', j) = At(population, k)
                    /\ At(population', j).id = At(population, k).id

\* C12: in each evolution step the first elite_size candidates of the
\* ranked previous generation are at the front of the working set, as the
\* same objects and in rank order, before mutation, and every elite whose
\* mutation decision is 'no' is in the next generation unchanged.
C12_ElitesCarriedOver == []ElitesInFront /\ [][UnmutatedElitesSurvive]_vars

\* C12 witness: a generation is in place that was made with two elites,
\* the first one passed by Mutate with the decision 'no', the second one
\* mutated, and the first one is in it.
C12_Witness ==
    /\ pc = "generation"
    /\ gen >= 1
    /\ elite_size = 2
    /\ mutate_hits = <<FALSE, TRUE>>
    /\ \E j \in 0..(pop_size - 1) : At(population, j).path = <<1, 2, 3>>

\* Mutate has gone through the whole working set of this evolution step.
MutateDone == pc = "mutate" /\ child = Len(children)

\* C13: in a run with mutation_rate = 1.0 and elite_size >= 1 (at least 3
\* stations), every slot of a carried-over elite that Mutate has passed
\* holds a new Route whose path differs from the elite's, so that when
\* Mutate is done at least one elite (every one, in fact) has a different
\* path in the list that becomes the next generation.
C13_ElitesMutatedAtRateOne ==
    (pc = "mutate" /\ mutation_rate = GridSize /\ elite_size >= 1) =>
        /\ \A k \in 0..(Min(child, elite_size) - 1) :
              /\ At(children, k).path # At(population, k).path
              /\ At(children, k).id # At(population, k).id
        /\ MutateDone =>
              \E k \in 0..(elite_size - 1) :
                  At(children, k).path # At(population, k).path

\* C13 witness: Mutate is done in a run with mutation_rate = 1.0 and two
\* elites, and the slot of the best elite holds another path.
C13_Witness ==
    /\ MutateDone
    /\ mutation_rate = GridSize
    /\ elite_size = 2
    /\ At(children, 0).path # At(population, 0).path
    /\ At(children, 1).path # At(population, 1).path

\* The three-location scenario: stations A, B, C are 1, 2, 3 with AB = 5,
\* AC = 10, BC = 3, and the run starts at A.
ThreeLocations ==
    /\ Len(station_list) = 3
    /\ first_station = 1
    /\ time_to[1][2] = 5 /\ time_to[1][3] = 10 /\ time_to[2][3] = 3

\* C14: in the three-location scenario the best-duration history, once it
\* has reached 8, stays at 8, and the final population of a run whose
\* history has reached 8 has the minimum duration 8.
C14_StaysAtEight ==
    (ThreeLocations /\ pc # "create_initial_population") =>
        /\ \A g, h \in 0..(Len(best_route_gen) - 1) :
              (g <= h /\ At(best_route_gen, g) = 8) => At(best_route_gen, h) = 8
        /\ (pc = "done" /\ \E g \in 0..gen : At(best_route_gen, g) = 8) =>
              At(final_gen_df, 0).Duration = 8

\* Two references to Route objects are to one object exactly when their
\* paths are one list object, and one object has one path and duration;
\* the list Mutate is about to swap in place is no Route's path.
NoSharedPaths ==
    /\ \A r1, r2 \in AllRoutes :
          /\ r1.id = r2.id <=> r1.path_id = r2.path_id
          /\ r1.id = r2.id => r1 = r2
    /\ \A a, b \in 1..Len(population) : a # b => population[a].id # population[b].id
    /\ \A a, b \in 1..Len(children) : a # b => children[a].id # children[b].id
    /\ pc = "reroll_swap" =>
          /\ mutate_path_id # NoObject
          /\ \A r \in AllRoutes : r.path_id # mutate_path_id

\* From the moment generation 0 is ranked, no step but the one that ends
\* an evolution step, where the ranked next generation takes its place,
\* changes the population (members, order, paths, durations), and no step
\* at all changes the path or the duration of one of its Route objects.
PreviousGenerationKept ==
    /\ (pc \notin {"create_initial_population", "done"}
           /\ ~(pc = "mutate" /\ pc' = "generation")) => population' = population
    /\ \A r \in RoutesOf(population) :
          \A r2 \in RoutesOf(population') \cup RoutesOf(children')
                     \cup RowRoutes(parents') \cup RowRoutes(final_gen_df') :
              (r2.id = r.id \/ r2.path_id = r.path_id) => r2 = r

\* C15: no operation of a run edits a candidate or the previous population
\* in place: while CreateNextGeneration runs and when it returns, the list
\* it was handed has the same members in the same order, each with the
\* path and time_taken it had, and no two Route objects share a path list
\* (crossover and mutation work on copies and build new Routes).
C15_NothingEditedInPlace == []NoSharedPaths /\ [][PreviousGenerationKept]_vars

\* C15 witness: Mutate is done after a crossover and the mutation of the
\* elite and of the child; the two parents and the two new routes are four
\* objects on four lists, and the previous generation is as it was ranked.
C15_Witness ==
    /\ MutateDone
    /\ pop_size = 2
    /\ elite_size = 1
    /\ mutate_hits = <<TRUE, TRUE>>
    /\ Cardinality({r.id : r \in AllRoutes}) = 4
    /\ Cardinality({r.path_id : r \in AllRoutes}) = 4
    /\ population = [k \in 1..2 |-> parents[k].Route]
    /\ At(children, 0).path # At(population, 0).path

\* The run's parameters violate the configuration constraints.
InvalidConfiguration ==
    \/ n_generations <= 0
    \/ pop_size < 2
    \/ elite_size < 0
    \/ elite_size >= pop_size
    \/ mutation_rate < 0
    \/ mutation_rate > GridSize

\* C16: a run whose parameters violate the configuration constraints is
\* stopped before any population is built: it holds no candidate, records
\* no history, starts no generation and returns no result.
C16_InvalidConfigurationAborts ==
    InvalidConfiguration =>
        /\ population = <<>>
        /\ best_route_gen = <<>>
        /\ pc = "create_initial_population"

\* every consecutive pair of path has an entry in time_to
PairsMapped(path) ==
    \A k \in 0..(Len(path) - 2) : At(path, k + 1) \in DOMAIN time_to[At(path, k)]

\* C17: the construction of a Route whose path has a consecutive pair
\* without an entry in time_to ends in an error and binds no Route object;
\* a construction whose pairs are all mapped never raises, goes on until
\* it returns, and returns the route with the sum over its path.
C17_MissingDistanceFails ==
    /\ pc = "key_error" => (new_route = None /\ ~PairsMapped(init_path))
    /\ pc = "route_init" => (new_route = None /\ ENABLED NextRoute)
    /\ pc = "route_built" =>
          /\ PairsMapped(init_path)
          /\ new_route.path = init_path
          /\ new_route.time_taken = ManualDuration(init_path)
    /\ PairsMapped(init_path) => pc # "key_error"
    /\ ~PairsMapped(init_path) => pc # "route_built"

\* C17 witness: a construction over three stations has raised at the
\* second pair, after it had added the first pair's duration, and no Route
\* is bound.
C17_Witness ==
    /\ pc = "key_error"
    /\ Len(init_path) = 3
    /\ init_i = 1
    /\ duration > 0
    /\ new_route = None

\* One iteration of Mutate's loop, whatever its draw: with mutation_rate
\* = 0 it leaves the list of candidates as it is, and with mutation_rate
\* = 1 it does not.
RateDecidesMutation ==
    (pc = "mutate" /\ child < Len(children)) =>
        /\ mutation_rate = 0 => (children' = children /\ pc' = "mutate")
        /\ mutation_rate = GridSize => children' # children

\* C18: with mutation_rate = 0 no value of the draw in [0,1) makes Mutate
\* swap (every candidate is returned unchanged), and with mutation_rate = 1
\* every value of the draw does.
C18_MutationRateDecides == [][RateDecidesMutation]_vars

\* C19: in each evolution step Mutate makes exactly one mutation decision
\* for each member of the working set, elites included: one per slot it
\* has passed, pop_size when it is done, and the slot of an elite holds the
\* elite exactly when its decision was 'no'.  (That a run with elite_size
\* >= 1 can therefore record a worse best duration is the witness.)
C19_OneDecisionEach ==
    /\ pc \in {"select_parents", "reroll_father", "procreate", "reroll_gene"} =>
          mutate_hits = <<>>
    /\ pc = "mutate" =>
          /\ Len(children) = pop_size
          /\ child <= pop_size
          /\ Len(mutate_hits) = child
          /\ \A k \in 0..(Min(child, elite_size) - 1) :
                At(mutate_hits, k) <=> At(children, k) # At(population, k)
    /\ pc = "reroll_swap" =>
          /\ Len(mutate_hits) = child + 1
          /\ Last(mutate_hits)
    /\ (pc \in {"generation", "done"} /\ gen >= 1) =>
          Len(mutate_hits) = pop_size

\* C19 witness: a generation made with one elite out of two candidates,
\* with one decision for each of the two, has a best duration strictly
\* greater than the generation before.
C19_Witness ==
    /\ pc = "generation"
    /\ gen >= 1
    /\ pop_size = 2
    /\ elite_size = 1
    /\ Len(mutate_hits) = 2
    /\ At(mutate_hits, 0)
    /\ At(best_route_gen, gen) > At(best_route_gen, gen - 1)

\* C20: when a generation was made with elite_size >= 1 and the mutation
\* decision for the rank-0 elite was 'no', its best duration is less than
\* or equal to the best duration of the generation before.
C20_BestKeptByUnmutatedElite ==
    (pc \in {"generation", "done"} /\ gen >= 1 /\ elite_size >= 1
       /\ ~At(mutate_hits, 0)) =>
        At(best_route_gen, gen) <= At(best_route_gen, gen - 1)

\* C20 witness: a generation made with one elite out of two candidates,
\* the elite passed with the decision 'no' and the child mutated, has a
\* best duration strictly less than the generation before.
C20_Witness ==
    /\ pc = "generation"
    /\ gen >= 1
    /\ pop_size = 2
    /\ elite_size = 1
    /\ mutate_hits = <<FALSE, TRUE>>
    /\ At(best_route_gen, gen) < At(best_route_gen, gen - 1)

\* The number 1.0
DoubleOne == DoubleOfInt[1]

\* A whole number below 2^81 in three limbs, top * 2^54 + hi * 2^27 + lo.
Wide(top, hi, lo) == [top |-> top, hi |-> hi, lo |-> lo]

\* The float x, 0 or from 2^-28 up to 2, as the whole number x * 2^80
WideOf(x) ==
    IF x = DoubleZero THEN Wide(0, 0, 0)
    ELSE LET bits == x.exp + 80
             cut == 2^(27 - (bits % 27))
             lo == (x.mant.lo % cut) * 2^(bits % 27)
             hi == (x.mant.hi % cut) * 2^(bits % 27) + (x.mant.lo \div cut)
             top == x.mant.hi \div cut
         IN  IF bits < 27 THEN Wide(top, hi, lo)
             ELSE Wide(top * Limb + hi, lo, 0)

WideAdd(a, b) ==
    LET lo == a.lo + b.lo
        hi == a.hi + b.hi + (lo \div Limb)
    IN  Wide(a.top + b.top + (hi \div Limb), hi % Limb, lo % Limb)

WideLeq(a, b) ==
    \/ a.top < b.top
    \/ a.top = b.top /\ a.hi < b.hi
    \/ a.top = b.top /\ a.hi = b.hi /\ a.lo <= b.lo

\* CDF(i) of a selection table as a whole number of 2^-80, 0 before the
\* first row
WideCDF(table, i) ==
    IF i < 0 THEN Wide(0, 0, 0) ELSE WideOf(At(table, i).CDF)

\* The probability mass of row i (0-based) of a selection table is
\* CDF(i) - CDF(i-1), and CDF(0) for the first row, the differences being
\* exact: whether the mass of row i is at most the mass of row j.
MassLeq(table, i, j) ==
    WideLeq(WideAdd(WideCDF(table, i), WideCDF(table, j - 1)),
            WideAdd(WideCDF(table, j), WideCDF(table, i - 1)))

\* Every row of the table has a positive duration and the fitness
\* 1/duration, and the CDF is positive in the first row and strictly
\* increasing along the rows.
FitnessAndIncrease(table) ==
    \A i \in 0..(Len(table) - 1) :
        /\ At(table, i).Route.time_taken > 0
        /\ At(table, i).Fitness
              = DoubleDiv[DoubleOne, DoubleOfInt[At(table, i).Route.time_taken]]
        /\ DoubleLess[DoubleZero, At(table, i).CDF]
        /\ i >= 1 => DoubleLess[At(table, i - 1).CDF, At(table, i).CDF]

\* The table is as the claim says: beside the above, the CDF is 1 in the
\* last row and the masses do not increase with the rank.
SelectionTableSound(table) ==
    /\ FitnessAndIncrease(table)
    /\ \A i \in 1..(Len(table) - 1) : MassLeq(table, i, i - 1)
    /\ Len(table) >= 1 => Last(table).CDF = DoubleOne

\* The table in floating point: beside the above, the CDF is 1 in the
\* last row of a table of fewer than 8 rows, and a route has at least the
\* mass of every route that is strictly slower.
SelectionTableRounded(table) ==
    /\ FitnessAndIncrease(table)
    /\ \A i, j \in 0..(Len(table) - 1) :
          At(table, i).Route.time_taken < At(table, j).Route.time_taken
              => MassLeq(table, j, i)
    /\ Len(table) \in 1..7 => Last(table).CDF = DoubleOne

\* C21 as stated: every selection table SetParentsFitness builds from a
\* ranked population has fitness(i) = 1/duration(i), a CDF strictly
\* increasing along the ranks with the final entry 1, and a mass
\* CDF(i) - CDF(i-1) per candidate that does not increase with the rank.
C21_AsStated ==
    /\ SelectionTableSound(parents)
    /\ SelectionTableSound(final_gen_df)

\* C21: every selection table SetParentsFitness builds from a ranked
\* population (the parents of a generation, the final dataframe) has
\* fitness(i) the float64 quotient 1/duration(i) and a CDF strictly
\* increasing along the ranks; its final entry is 1 when the table has
\* fewer than 8 rows, and the mass CDF(i) - CDF(i-1) of a candidate is at
\* least the mass of every candidate of a strictly longer duration.
C21_SelectionTable ==
    /\ SelectionTableRounded(parents)
    /\ SelectionTableRounded(final_gen_df)

\* C21 witness: SetParentsFitness has returned a table of 4 rows, a quick
\* route and slower ones, the second and the third of one duration; the
\* quick route has strictly more mass than either, the third has more
\* mass than the second, the final entry of the CDF is 1, and the table
\* is as C21 says.
C21_Witness ==
    /\ pc = "fitness_returned"
    /\ Len(parents) = 4
    /\ At(parents, 0).Route.time_taken < At(parents, 1).Route.time_taken
    /\ At(parents, 1).Route.time_taken = At(parents, 2).Route.time_taken
    /\ ~MassLeq(parents, 0, 1)
    /\ ~MassLeq(parents, 0, 2)
    /\ ~MassLeq(parents, 2, 1)
    /\ Last(parents).CDF = DoubleOne
    /\ C21_SelectionTable

\* C22: the child of a mating has the mother's first station at its first
\* position and the mother's last station at its last position, and, when
\* the paths of the mother and of the father differ, a path that differs
\* from the father's.
C22_ChildDiffersFromFather ==
    MatingDone =>
        /\ At(LastChild, 0) = At(LastMother, 0)
        /\ Last(LastChild) = Last(LastMother)
        /\ LastMother # LastFather => LastChild # LastFather

\* The run's parameters are in their ranges: at least 3 stations, at least
\* 2 routes per generation, and fewer elites than routes.
ValidRun ==
    /\ Len(station_list) >= 3
    /\ pop_size >= 2
    /\ elite_size >= 0
    /\ elite_size < pop_size

TwoStations == Len(station_list) = 2
LoneRoute == pop_size = 1 /\ elite_size = 0

\* With 2 stations no mating of Procreate completes and no mutation that
\* was triggered does; with one route and no elite no pair of SelectParents
\* does.  Such a run never has a generation 1, and returns only when no
\* evolution step was asked for (or, with 2 stations, no child was to be
\* bred and no mutation was triggered).
NeverPastGenerationZero ==
    /\ TwoStations =>
          /\ pc = "procreate" => mating = 0
          /\ pc \in {"generation", "done"} =>
                \A k \in 1..Len(mutate_hits) : ~mutate_hits[k]
          /\ (elite_size < pop_size) =>
                /\ gen = 0
                /\ pc = "done" => n_generations = 0
    /\ LoneRoute =>
          /\ pc = "select_parents" => mating = 0
          /\ pc \notin {"procreate", "reroll_gene", "mutate", "reroll_swap"}
          /\ gen = 0
          /\ pc = "done" => n_generations = 0

\* A step taken within one of these redraw loops stays within it.
LoopsForEver ==
    /\ (TwoStations /\ pc = "reroll_gene") => pc' = "reroll_gene"
    /\ (TwoStations /\ pc = "reroll_swap") => pc' = "reroll_swap"
    /\ (LoneRoute /\ pc = "reroll_father") => pc' = "reroll_father"

\* C24: with exactly 2 stations the only cut or swap index is 1, and the
\* redraw of the second index never ends, in Procreate as soon as a child
\* is to be bred and in Mutate as soon as a mutation is triggered; with
\* pop_size = 1 and elite_size = 0 the father redraw of SelectParents never
\* ends; the run never reaches generation 1.
C24_DegenerateRunsLoop == []NeverPastGenerationZero /\ [][LoopsForEver]_vars

\* C24 witness: a run over 2 stations with a child to breed is redrawing
\* the second cut index, both indices being 1, in its first evolution step.
C24_Witness ==
    /\ TwoStations
    /\ pc = "reroll_gene"
    /\ genes = <<1, 1>>
    /\ elite_size < pop_size
    /\ n_generations >= 1
    /\ gen = 0

\* A step leaves the caller's list of stations, the start station and
\* every Station's time_to as they were.
CallerListKept ==
    /\ station_list' = station_list
    /\ heap'[StationListId] = heap[StationListId]
    /\ first_station' = first_station
    /\ time_to' = time_to

\* The caller's list holds the stations it was handed, in their order, the
\* start station among them.  The list CreateRoute works on is neither the
\* caller's list nor the path of a candidate built before, and starts as a
\* copy of the caller's list; the candidates have paths that are different
\* list objects, none of them the caller's list, and each is a route that
\* CreateRoute can return.
CopiesFresh ==
    /\ station_list = [k \in 1..Len(station_list) |-> k]
    /\ Contains(station_list, first_station)
    /\ pc # "value_error"
    /\ pc \in {"create_route_remove", "create_route_sample",
               "create_route_insert", "create_route_return"} =>
          /\ create_path # StationListId
          /\ create_path \notin PathIds(population)
    /\ pc = "create_route_remove" => heap[create_path] = station_list
    /\ \A a, b \in 1..Len(population) :
          a # b => /\ population[a].path_id # population[b].path_id
                   /\ population[a].id # population[b].id
    /\ \A r \in RoutesOf(population) :
          /\ r.path_id # StationListId
          /\ heap[r.path_id] = r.path
          /\ Route(r.path) \in CreateRoute(station_list, first_station)
          /\ r.time_taken = Route(r.path).time_taken
    /\ pc = "population_created" => Len(population) = pop_size

\* C25: CreateRoute and CreateInitialPopulation leave the caller's
\* station_list unchanged (the same stations in the same order, the start
\* station among them) and change no Station's time_to; each initial
\* candidate is built from its own new copy of the list.
C25_CallerListUnchanged == []CopiesFresh /\ [][CallerListKept]_vars

\* C25 witness: CreateInitialPopulation has returned two candidates with
\* different paths, for a start station that is not the first of the list,
\* and the caller's list is as it was.
C25_Witness ==
    /\ pc = "population_created"
    /\ pop_size = 2
    /\ At(population, 0).path # At(population, 1).path
    /\ first_station = 3
    /\ station_list = <<1, 2, 3>>
    /\ heap[StationListId] = <<1, 2, 3>>

\* C26: the parameters GeneticAlgorithmMenu returns on 'Accept', after any
\* sequence of edits from the defaults, have pop_size >= 2 and
\* 0 <= elite_size < pop_size.
C26_AcceptedSizesValid ==
    pc = "accepted" =>
        /\ pop_size >= 2
        /\ 0 <= elite_size
        /\ elite_size < pop_size

\* The menu has not ended in an error, and the values it holds, defaults
\* or accepted entries, are in their ranges.
MenuSound ==
    /\ pc # "unbound_local_error"
    /\ n_generations > 0
    /\ mutation_rate # NaN
    /\ 0 <= mutation_rate.num
    /\ mutation_rate.num <= mutation_rate.den
    /\ random_seed >= 0

\* The line typed at a prompt leads back to the menu, leaves the other four
\* parameters as they were and changes the parameter asked for only to the
\* number typed.
MenuEntryKeeps ==
    (\E k \in 1..Len(Prompts) : pc = Prompts[k]) =>
        /\ pc' = "menu"
        /\ n_generations' # n_generations =>
              pc = "ask_generations" /\ n_generations' = second_value'.num
        /\ pop_size' # pop_size =>
              pc = "ask_routes" /\ pop_size' = second_value'.num
        /\ elite_size' # elite_size =>
              pc = "ask_elites" /\ elite_size' = second_value'.num
        /\ mutation_rate' # mutation_rate =>
              /\ pc = "ask_rate"
              /\ mutation_rate' = Rat(second_value'.num, second_value'.den)
        /\ random_seed' # random_seed =>
              pc = "ask_seed" /\ random_seed' = second_value'.num

\* C27: a rejected entry for any parameter of GeneticAlgorithmMenu, out of
\* range or no number, the very first entry included, leaves the five
\* parameters unchanged and leads back to the menu; the menu never ends in
\* an error on bad input; the values accepted have n_generations > 0,
\* 0 <= mutation_rate <= 1 and random_seed >= 0.
C27_BadEntriesRejected == []MenuSound /\ [][MenuEntryKeeps]_vars

\* The responses before the latest one could not be decoded.
EarlierUndecodable ==
    \A k \in 1..(Len(responses) - 1) : responses[k].kind = "undecodable"

\* What a call that has returned gave: the data of the latest response if
\* that is a JSON document, None if it is a connection error, and None if it
\* could not be decoded and is the 10th.
ReturnedRight ==
    /\ responses # <<>>
    /\ LET latest == Last(responses)
       IN  /\ latest.kind = "json" => tfl_api_data = <<latest.body>>
           /\ latest.kind = "connection_error" => tfl_api_data = None
           /\ latest.kind = "undecodable" =>
                  tfl_api_data = None /\ Len(responses) = 10

\* C28: a call of ContactTfLAPI sends at most 10 requests; every request but
\* the latest got a response that could not be decoded, so the call goes on
\* after no decodable response and after no connection error; before each
\* request the responses so far are attempt - 1 undecodable ones; and the
\* call returns the decoded data of its latest response, or None at a
\* connection error, or None at exactly the 10th undecodable response.
C28_AtMostTenRequests ==
    /\ pc \in {"api_request", "api_decode", "api_returned"}
    /\ Len(responses) <= 10
    /\ EarlierUndecodable
    /\ pc = "api_request" =>
           /\ Len(responses) = attempt - 1
           /\ \A k \in 1..Len(responses) : responses[k].kind = "undecodable"
    /\ pc = "api_decode" =>
           /\ Len(responses) = attempt
           /\ Last(responses).kind # "connection_error"
    /\ pc = "api_returned" => ReturnedRight

\* The call has returned None after ten responses that could not be decoded.
C28_Witness ==
    /\ pc = "api_returned"
    /\ Len(responses) = 10
    /\ Last(responses).kind = "undecodable"
    /\ tfl_api_data = None

\* A time of day in hhmm form: four digits, hh at most 23 and mm at most 59.
ValidTime(text) ==
    /\ Len(text) = 4
    /\ \A k \in 1..4 : IsDigit(text[k])
    /\ DecimalValue(SubSeq(text, 1, 2)) <= 23
    /\ DecimalValue(SubSeq(text, 3, 4)) <= 59

\* The time TimeAndDateMenu returns when the values are accepted is valid.
AcceptedTimeValid == pc = "time_accepted" => ValidTime(time)

\* A line typed for the time leaves the time held as it is, or is a valid
\* time and replaces it.
TimeEntryKeepsOrValid == pc = "ask_time" => time' = time \/ ValidTime(time')

\* C29: whatever the user types, the time TimeAndDateMenu returns on
\* acceptance is a valid 24-hour time hhmm with hh <= 23 and mm <= 59, and
\* a line typed for the time that is no valid time leaves the time held
\* unchanged.
C29_ReturnedTimeValid ==
    []AcceptedTimeValid /\ [][TimeEntryKeepsOrValid]_vars

\* C30: whenever RunGenAlg calls GeneticAlgorithm, from a station list file
\* or from a station matrix file, the station list has at least 3 stations.
C30_StartedOnThreeStations ==
    pc = "genetic_algorithm" => Len(station_list) >= 3

====
